---- MODULE Spec2Model ----
(***************************************************************************)
(* Model of chatgpt-stats: the ingestion fold of analytics.py              *)
(* (process_conversations and its helpers), the payload builder, and the   *)
(* TTL cache of app.py (_get_cached_data).                                 *)
(*                                                                         *)
(* Representation                                                          *)
(*   datetime      [day, sec]: days since 1970-01-01 and second of the day *)
(*                 (the local zone is taken to be UTC)                     *)
(*   date          the day number; its isoformat() is <<year, month, day>> *)
(*                 so that s[:7] is <<year, month>> and s[:4] is the year  *)
(*   Optional[x]   <<>> for None, <<x>> otherwise                          *)
(*   dict          a sequence of entries in insertion order                *)
(*   round(x, 2)   an integer number of hundredths                         *)
(***************************************************************************)
EXTENDS Integers, Sequences, FiniteSets, TLC

\* Bounds of the model.
MaxChats == 2
MaxTotalNodes == 3

VARIABLES
    pc,                      \* position in process_conversations
    n_chats,                 \* conversations taken from the list so far
    n_nodes,                 \* mapping nodes walked so far (all conversations)
    n_msgs,                  \* len(messages) of the current conversation
    n_valid,                 \* its user nodes with a parseable create_time so far
    chat,                    \* locals of _process_chat_messages
    daily_stats,             \* analytics.py:351
    all_message_timestamps,  \* analytics.py:352
    chat_summaries,          \* analytics.py:350
    summary,                 \* analytics.py:358, <<>> for None
    daily_records,           \* the finalized records returned at :369
    warned,                  \* logger.warning of :363 was emitted
    asst_dates,              \* dates credited with assistant stats by the current conversation
    ref,                     \* the same fold over the input without its unparseable user messages
    asst_seen                \* the assistant messages folded so far, by what was done with them

ingest_vars == <<pc, n_chats, n_nodes, n_msgs, n_valid, chat, daily_stats,
                 all_message_timestamps, chat_summaries, summary,
                 daily_records, warned, asst_dates, ref, asst_seen>>

\* Two runs of build_dashboard_payload over one export.
VARIABLES
    export,                  \* what load_conversations finds at the path
    wall,                    \* the wall clock, Unix seconds
    n_passes,                \* times the wall clock was advanced
    payloads                 \* the results of the runs so far

pipeline_vars == <<export, wall, n_passes, payloads>>

\* The cache of app.py and the requests calling _get_cached_data.
VARIABLES
    cache,                   \* app.py:37, data is <<>> for None
    lock,                    \* holder of _cache_lock, 0 when free
    clock,                   \* time.monotonic(), seconds
    n_ticks,                 \* times the clock was advanced
    th,                      \* per request thread: its position, arguments, result
    n_builds,                \* calls of build_dashboard_payload so far
    last_store,              \* the last store at app.py:76-77, <<>> if none
    any_forced,              \* some call so far had force_refresh
    any_failed,              \* some build so far raised
    first_store,             \* the clock at the first store, <<>> if none
    contended                \* some call so far arrived while the lock was held

cache_vars == <<cache, lock, clock, n_ticks, th, n_builds, last_store,
                any_forced, any_failed, first_store, contended>>

\* One aggregator of analytics.py applied to one input.
VARIABLES
    fn,                      \* the aggregator called, "" if none
    arg,                     \* its arguments
    out                      \* <<>> before the call, <<result>> after it

agg_vars == <<fn, arg, out>>

vars == <<ingest_vars, pipeline_vars, cache_vars, agg_vars>>

\* No aggregator is called on its own.
AggIdle == fn = "" /\ arg = <<>> /\ out = <<>>

----------------------------------------------------------------------------
\* Generic helpers.

RECURSIVE SumSeq(_)
SumSeq(s) == IF s = <<>> THEN 0 ELSE Head(s) + SumSeq(Tail(s))

RECURSIVE MaxSeq(_)
MaxSeq(s) == IF Len(s) = 1 THEN s[1]
             ELSE LET m == MaxSeq(Tail(s)) IN IF s[1] >= m THEN s[1] ELSE m

\* round(num / den, 2) in hundredths, ties to even (num >= 0, den > 0).
Round2(num, den) ==
    LET q == (100 * num) \div den
        r == (100 * num) % den
    IN  IF 2 * r > den THEN q + 1
        ELSE IF 2 * r < den THEN q
        ELSE IF q % 2 = 0 THEN q ELSE q + 1

----------------------------------------------------------------------------
\* Dates.

\* datetime.fromtimestamp(t)
FromTimestamp(t) == [day |-> t \div 86400, sec |-> t % 86400]

DtLess(a, b) == a.day < b.day \/ (a.day = b.day /\ a.sec < b.sec)

\* (b - a).total_seconds()
TotalSeconds(a, b) == (b.day - a.day) * 86400 + (b.sec - a.sec)

\* date.isoformat(): the civil date of a day number, as <<year, month, day>>.
IsoDate(days) ==
    LET z   == days + 719468
        era == z \div 146097
        doe == z - era * 146097
        yoe == (doe - doe \div 1460 + doe \div 36524 - doe \div 146096) \div 365
        doy == doe - (365 * yoe + yoe \div 4 - yoe \div 100)
        mp  == (5 * doy + 2) \div 153
        d   == doy - (153 * mp + 2) \div 5 + 1
        m   == IF mp < 10 THEN mp + 3 ELSE mp - 9
        y   == yoe + era * 400 + (IF m <= 2 THEN 1 ELSE 0)
    IN  <<y, m, d>>

\* datetime.isoformat()
IsoDateTime(dt) == [date |-> IsoDate(dt.day), sec |-> dt.sec]

----------------------------------------------------------------------------
\* Message Extractor.

Word(n) == [chars |-> n, fence |-> FALSE, lang |-> ""]
Fence(l, n) == [chars |-> n, fence |-> TRUE, lang |-> l]
StrPart(toks) == [isstr |-> TRUE, tokens |-> toks]
NonStrPart == [isstr |-> FALSE, tokens |-> <<>>]

\* " ".join(p for p in parts if isinstance(p, str)), as its tokens.
RECURSIVE JoinParts(_)
JoinParts(parts) ==
    IF parts = <<>> THEN <<>>
    ELSE (IF Head(parts).isstr THEN Head(parts).tokens ELSE <<>>)
         \o JoinParts(Tail(parts))

\* _extract_message_content: (word_count, char_count, has_code, code_languages)
ExtractMessageContent(content) ==
    LET text == IF content.isdict /\ content.islist
                THEN JoinParts(content.parts) ELSE <<>>
        n    == Len(text)
        code == \E i \in 1..n : text[i].fence
    IN  [word_count |-> n,
         char_count |-> IF n = 0 THEN 0
                        ELSE SumSeq([i \in 1..n |-> text[i].chars]) + (n - 1),
         has_code   |-> code,
         code_langs |-> IF code
                        THEN {text[i].lang : i \in {j \in 1..n :
                                  text[j].fence /\ text[j].lang # ""}}
                        ELSE {}]

\* One iteration of the loop of _extract_conversation_messages.
ExtractNode(node) ==
    IF node.shape \in {"nondict", "nomessage"} THEN [tag |-> "skip"]
    ELSE IF node.shape = "strmessage" THEN [tag |-> "raise"]
    ELSE IF node.shape \in {"noauthor", "nondictauthor"} THEN [tag |-> "skip"]
    ELSE IF node.role \notin {"user", "assistant"} THEN [tag |-> "skip"]
    ELSE LET c == ExtractMessageContent(node.content)
         IN  [tag |-> "msg",
              role |-> node.role,
              create_time |-> node.create_time,
              word_count |-> c.word_count,
              char_count |-> c.char_count,
              has_code |-> c.has_code,
              code_langs |-> c.code_langs]

----------------------------------------------------------------------------
\* Daily Accumulator.

InitDailyBucket(d) ==
    [date |-> d, total_messages |-> 0, total_chats |-> 0,
     messages_per_chat |-> <<>>,
     user_words |-> 0, user_chars |-> 0, user_msgs |-> 0, user_code_msgs |-> 0,
     asst_words |-> 0, asst_chars |-> 0, asst_msgs |-> 0, asst_code_msgs |-> 0]

\* d in daily_stats
HasDate(ds, d) == \E i \in 1..Len(ds) : ds[i].date = d

\* position of d's bucket (0 when there is none)
IndexOf(ds, d) ==
    IF HasDate(ds, d) THEN CHOOSE i \in 1..Len(ds) : ds[i].date = d ELSE 0

\* Mutant: total_messages is counted only when the bucket is created.
AccumulateUserDailyStatsNewOnly(ds, d, wc, cc, code) ==
    LET ds1 == IF HasDate(ds, d) THEN ds ELSE Append(ds, InitDailyBucket(d))
        i   == IndexOf(ds1, d)
    IN  [ds1 EXCEPT ![i] = [@ EXCEPT
            !.total_messages = IF HasDate(ds, d) THEN @ ELSE @ + 1,
            !.user_words = @ + wc,
            !.user_chars = @ + cc,
            !.user_msgs = @ + 1,
            !.user_code_msgs = IF code THEN @ + 1 ELSE @]]

AccumulateUserDailyStats(ds, d, wc, cc, code) ==
    LET ds1 == IF HasDate(ds, d) THEN ds ELSE Append(ds, InitDailyBucket(d))
        i   == IndexOf(ds1, d)
    IN  [ds1 EXCEPT ![i] = [@ EXCEPT
            !.total_messages = @ + 1,
            !.user_words = @ + wc,
            !.user_chars = @ + cc,
            !.user_msgs = @ + 1,
            !.user_code_msgs = IF code THEN @ + 1 ELSE @]]

AccumulateAsstDailyStats(ds, d, wc, cc, code) ==
    IF ~HasDate(ds, d) THEN ds
    ELSE [ds EXCEPT ![IndexOf(ds, d)] = [@ EXCEPT
            !.asst_words = @ + wc,
            !.asst_chars = @ + cc,
            !.asst_msgs = @ + 1,
            !.asst_code_msgs = IF code THEN @ + 1 ELSE @]]

\* Mutant: the average is the day's messages over the day's chats.
BuildDailyRecordsMessagesOverChats(ds) ==
    [i \in 1..Len(ds) |->
        LET mpc == ds[i].messages_per_chat
        IN  [date |-> IsoDate(ds[i].date),
             total_messages |-> ds[i].total_messages,
             total_chats |-> ds[i].total_chats,
             avg_messages_per_chat |->
                 IF ds[i].total_chats > 0
                 THEN Round2(ds[i].total_messages, ds[i].total_chats) ELSE 0,
             max_messages_in_chat |-> IF mpc # <<>> THEN MaxSeq(mpc) ELSE 0,
             user_words |-> ds[i].user_words,
             user_chars |-> ds[i].user_chars,
             user_msgs |-> ds[i].user_msgs,
             user_code_msgs |-> ds[i].user_code_msgs,
             asst_words |-> ds[i].asst_words,
             asst_chars |-> ds[i].asst_chars,
             asst_msgs |-> ds[i].asst_msgs,
             asst_code_msgs |-> ds[i].asst_code_msgs]]

\* _build_daily_records
BuildDailyRecords(ds) ==
    [i \in 1..Len(ds) |->
        LET mpc == ds[i].messages_per_chat
        IN  [date |-> IsoDate(ds[i].date),
             total_messages |-> ds[i].total_messages,
             total_chats |-> ds[i].total_chats,
             avg_messages_per_chat |->
                 IF mpc # <<>> THEN Round2(SumSeq(mpc), Len(mpc)) ELSE 0,
             max_messages_in_chat |-> IF mpc # <<>> THEN MaxSeq(mpc) ELSE 0,
             user_words |-> ds[i].user_words,
             user_chars |-> ds[i].user_chars,
             user_msgs |-> ds[i].user_msgs,
             user_code_msgs |-> ds[i].user_code_msgs,
             asst_words |-> ds[i].asst_words,
             asst_chars |-> ds[i].asst_chars,
             asst_msgs |-> ds[i].asst_msgs,
             asst_code_msgs |-> ds[i].asst_code_msgs]]

----------------------------------------------------------------------------
\* Conversation Processor.  A run R is the record
\*   [daily_stats, all_timestamps, chat_summaries, chat, summary].

\* analytics.py:267-272
NewChat ==
    [message_count |-> 0, start |-> <<>>, end |-> <<>>,
     user_words |-> 0, asst_words |-> 0, code_langs |-> {}]

\* Mutant: the two comparisons are swapped.
UpdateTimeRangeSwapped(start, end, new_time) ==
    LET s == IF start = <<>> \/ DtLess(start[1], new_time)
             THEN <<new_time>> ELSE start
        e == IF end = <<>> \/ DtLess(new_time, end[1])
             THEN <<new_time>> ELSE end
    IN  <<s, e>>

\* Mutant: the start is the first timestamp met.
UpdateTimeRangeFirstIsStart(start, end, new_time) ==
    LET s == IF start = <<>> THEN <<new_time>> ELSE start
        e == IF end = <<>> \/ DtLess(end[1], new_time)
             THEN <<new_time>> ELSE end
    IN  <<s, e>>

UpdateTimeRange(start, end, new_time) ==
    LET s == IF start = <<>> \/ DtLess(new_time, start[1])
             THEN <<new_time>> ELSE start
        e == IF end = <<>> \/ DtLess(end[1], new_time)
             THEN <<new_time>> ELSE end
    IN  <<s, e>>

\* float(create_time) and datetime.fromtimestamp succeed
Convertible(ct) == ct.kind \in {"number", "numeric_string"}

\* Mutant: a user message is counted under the date the conversation started
\* on before it.
UserStepUnderStartDate(R, m, dt) ==
    LET rng == UpdateTimeRange(R.chat.start, R.chat.end, dt)
        d   == IF R.chat.start = <<>> THEN dt.day ELSE R.chat.start[1].day
    IN  [R EXCEPT
            !.chat = [@ EXCEPT !.message_count = @ + 1,
                               !.user_words = @ + m.word_count,
                               !.start = rng[1],
                               !.end = rng[2]],
            !.all_timestamps = Append(@, dt),
            !.daily_stats = AccumulateUserDailyStats(
                                @, d, m.word_count, m.char_count, m.has_code)]

\* The user branch of the loop body, analytics.py:282-290.
UserStep(R, m, dt) ==
    LET rng == UpdateTimeRange(R.chat.start, R.chat.end, dt)
    IN  [R EXCEPT
            !.chat = [@ EXCEPT !.message_count = @ + 1,
                               !.user_words = @ + m.word_count,
                               !.start = rng[1],
                               !.end = rng[2]],
            !.all_timestamps = Append(@, dt),
            !.daily_stats = AccumulateUserDailyStats(
                                @, dt.day, m.word_count, m.char_count, m.has_code)]

\* Mutant: an assistant message with a timestamp of its own is credited to
\* its own date.
AsstStepOwnDate(R, m) ==
    LET R1 == [R EXCEPT !.chat.asst_words = @ + m.word_count]
    IN  IF m.create_time.kind \in {"number", "numeric_string"}
        THEN [R1 EXCEPT !.daily_stats = AccumulateAsstDailyStats(
                  @, FromTimestamp(m.create_time.v).day,
                  m.word_count, m.char_count, m.has_code)]
        ELSE IF R1.chat.start # <<>>
        THEN [R1 EXCEPT !.daily_stats = AccumulateAsstDailyStats(
                  @, R1.chat.start[1].day, m.word_count, m.char_count, m.has_code)]
        ELSE R1

\* Mutant: before the first valid user message an assistant message is
\* credited to the bucket created last.
AsstStepEarlyToLastBucket(R, m) ==
    LET R1 == [R EXCEPT !.chat.asst_words = @ + m.word_count]
        d  == IF R1.chat.start # <<>> THEN R1.chat.start[1].day
              ELSE IF R1.daily_stats # <<>>
              THEN R1.daily_stats[Len(R1.daily_stats)].date
              ELSE 0
    IN  [R1 EXCEPT !.daily_stats = AccumulateAsstDailyStats(
             @, d, m.word_count, m.char_count, m.has_code)]

\* Mutant: the conversation's asst_words leave out the assistant messages
\* ahead of its first valid user message.
AsstStepWordsAfterStart(R, m) ==
    IF R.chat.start # <<>>
    THEN [R EXCEPT
            !.chat.asst_words = @ + m.word_count,
            !.daily_stats = AccumulateAsstDailyStats(
                @, R.chat.start[1].day, m.word_count, m.char_count, m.has_code)]
    ELSE R

\* The assistant branch of the loop body, analytics.py:292-296.
AsstStep(R, m) ==
    LET R1 == [R EXCEPT !.chat.asst_words = @ + m.word_count]
    IN  IF R1.chat.start # <<>>
        THEN [R1 EXCEPT !.daily_stats = AccumulateAsstDailyStats(
                  @, R1.chat.start[1].day, m.word_count, m.char_count, m.has_code)]
        ELSE R1

\* Mutant: a create_time that cannot be converted falls back to the epoch
\* instead of skipping the message.
ProcessMessageEpochFallback(R, m) ==
    LET R1 == [R EXCEPT !.chat.code_langs = @ \cup m.code_langs]
    IN  IF m.role = "user" /\ m.create_time.kind # "null"
        THEN IF Convertible(m.create_time)
             THEN UserStep(R1, m, FromTimestamp(m.create_time.v))
             ELSE UserStep(R1, m, FromTimestamp(0))
        ELSE IF m.role = "assistant" THEN AsstStep(R1, m)
        ELSE R1

\* One iteration of the loop of _process_chat_messages, analytics.py:274-296.
ProcessMessage(R, m) ==
    LET R1 == [R EXCEPT !.chat.code_langs = @ \cup m.code_langs]
    IN  IF m.role = "user" /\ m.create_time.kind # "null"
        THEN IF Convertible(m.create_time)
             THEN UserStep(R1, m, FromTimestamp(m.create_time.v))
             ELSE R1
        ELSE IF m.role = "assistant" THEN AsstStep(R1, m)
        ELSE R1

\* The summary dict of analytics.py:312-322.
ChatSummary(c) ==
    [date |-> IsoDate(c.start[1].day),
     start_time |-> IsoDateTime(c.start[1]),
     end_time |-> IsoDateTime(c.end[1]),
     message_count |-> c.message_count,
     duration_minutes |-> Round2(TotalSeconds(c.start[1], c.end[1]), 60),
     user_words |-> c.user_words,
     asst_words |-> c.asst_words,
     response_ratio |-> IF c.user_words > 0
                        THEN Round2(c.asst_words, c.user_words) ELSE 0,
     code_languages |-> c.code_langs]

\* Mutant: the chat is registered against the date of its last message.
FinishChatOnEndDate(R) ==
    IF R.chat.message_count = 0
    THEN [R EXCEPT !.summary = <<>>, !.chat = NewChat]
    ELSE LET i == IndexOf(R.daily_stats, R.chat.end[1].day)
             s == ChatSummary(R.chat)
         IN  [R EXCEPT
                !.daily_stats[i] = [@ EXCEPT
                    !.total_chats = @ + 1,
                    !.messages_per_chat = Append(@, R.chat.message_count)],
                !.summary = <<s>>,
                !.chat_summaries = Append(@, s),
                !.chat = NewChat]

\* The end of _process_chat_messages (analytics.py:298-322) and the append of
\* process_conversations (:359-360); the locals of the call are gone.
FinishChat(R) ==
    IF R.chat.message_count = 0
    THEN [R EXCEPT !.summary = <<>>, !.chat = NewChat]
    ELSE LET i == IndexOf(R.daily_stats, R.chat.start[1].day)
             s == ChatSummary(R.chat)
         IN  [R EXCEPT
                !.daily_stats[i] = [@ EXCEPT
                    !.total_chats = @ + 1,
                    !.messages_per_chat = Append(@, R.chat.message_count)],
                !.summary = <<s>>,
                !.chat_summaries = Append(@, s),
                !.chat = NewChat]

EmptyRun ==
    [daily_stats |-> <<>>, all_timestamps |-> <<>>, chat_summaries |-> <<>>,
     chat |-> NewChat, summary |-> <<>>]

----------------------------------------------------------------------------
\* The inputs the model draws.

NullTime == [kind |-> "null", v |-> 0]

\* create_time values: null, Unix seconds (2024-01-15 10:00, 2024-01-15 11:00,
\* 2024-01-16 10:00), a numeric string, "not-a-number", a list, and 1e20.
CreateTimes ==
    {NullTime,
     [kind |-> "number", v |-> 1705312800],
     [kind |-> "number", v |-> 1705316400],
     [kind |-> "numeric_string", v |-> 1705399200],
     [kind |-> "text", v |-> 0],
     [kind |-> "list", v |-> 0],
     [kind |-> "too_large", v |-> 0]}

NoContent == [isdict |-> FALSE, islist |-> FALSE, parts |-> <<>>]

\* {"parts": ["hello world"]}
PlainContent ==
    [isdict |-> TRUE, islist |-> TRUE,
     parts |-> <<StrPart(<<Word(5), Word(5)>>)>>]

\* {"parts": ["```python", 7, "x=1 ```"]}
CodeContent ==
    [isdict |-> TRUE, islist |-> TRUE,
     parts |-> <<StrPart(<<Fence("python", 9)>>), NonStrPart,
                 StrPart(<<Word(3), Fence("", 3)>>)>>]

Contents == {PlainContent, CodeContent}

\* {"parts": [""]}
EmptyContent == [isdict |-> TRUE, islist |-> TRUE, parts |-> <<StrPart(<<>>)>>]

RejectedShapes ==
    {"nondict", "nomessage", "strmessage", "noauthor", "nondictauthor"}

Nodes ==
    {[shape |-> s, role |-> "user", create_time |-> NullTime, content |-> NoContent]
        : s \in RejectedShapes}
    \cup {[shape |-> "ok", role |-> "system", create_time |-> NullTime,
           content |-> PlainContent]}
    \cup [shape : {"ok"}, role : {"user"}, create_time : CreateTimes,
          content : Contents]
    \cup [shape : {"ok"}, role : {"assistant"},
          create_time : {NullTime, [kind |-> "number", v |-> 1705312800]},
          content : Contents]
    \cup {[shape |-> "ok", role |-> "assistant", create_time |-> NullTime,
           content |-> EmptyContent]}

----------------------------------------------------------------------------
\* process_conversations as a state machine.

MainRun ==
    [daily_stats |-> daily_stats, all_timestamps |-> all_message_timestamps,
     chat_summaries |-> chat_summaries, chat |-> chat, summary |-> summary]

SetMain(R) ==
    /\ daily_stats' = R.daily_stats
    /\ all_message_timestamps' = R.all_timestamps
    /\ chat_summaries' = R.chat_summaries
    /\ chat' = R.chat
    /\ summary' = R.summary

\* The dates whose assistant counters differ between two accumulators.
AsstCredited(ds0, ds1) ==
    {ds1[i].date : i \in {j \in 1..Len(ds1) :
        IF HasDate(ds0, ds1[j].date)
        THEN ds0[IndexOf(ds0, ds1[j].date)].asst_msgs # ds1[j].asst_msgs
        ELSE ds1[j].asst_msgs # 0}}

\* A user message the fold skips for its timestamp.
Unparseable(m) ==
    m.role = "user" /\ (m.create_time.kind = "null" \/ ~Convertible(m.create_time))

\* Assistant messages by their place in the message order:
\*   early_n, early_words   those of the current conversation folded before
\*                          any of its valid user messages, and their words
\*   dropped_n, dropped_words  the same, over the conversations that have
\*                          returned a summary
\*   credited_n, credited_words  those folded after a valid user message
\*                          of their conversation, and their words
NoneSeen ==
    [early_n |-> 0, early_words |-> 0, dropped_n |-> 0, dropped_words |-> 0,
     credited_n |-> 0, credited_words |-> 0]

\* asst_seen after the message x was folded, valid user messages of the
\* conversation having been folded before it.
SeenAfter(seen, valid, x) ==
    IF x.role # "assistant" THEN seen
    ELSE IF valid = 0
    THEN [seen EXCEPT !.early_n = @ + 1, !.early_words = @ + x.word_count]
    ELSE [seen EXCEPT !.credited_n = @ + 1,
                      !.credited_words = @ + x.word_count]

\* asst_seen after the conversation returned its summary, or None.
SeenAtEnd(seen, returned) ==
    IF returned
    THEN [seen EXCEPT !.dropped_n = @ + seen.early_n,
                      !.dropped_words = @ + seen.early_words,
                      !.early_n = 0, !.early_words = 0]
    ELSE [seen EXCEPT !.early_n = 0, !.early_words = 0]

IngestInit ==
    /\ pc = "next_chat"
    /\ n_chats = 0
    /\ n_nodes = 0
    /\ n_msgs = 0
    /\ n_valid = 0
    /\ chat = NewChat
    /\ daily_stats = <<>>
    /\ all_message_timestamps = <<>>
    /\ chat_summaries = <<>>
    /\ summary = <<>>
    /\ daily_records = <<>>
    /\ warned = FALSE
    /\ asst_dates = {}
    /\ ref = EmptyRun
    /\ asst_seen = NoneSeen

\* A conversation whose mapping is absent (the default {} is walked) or not
\* a dict: no message is extracted and the loop continues (:136-138, :356-357).
SkipChat ==
    /\ pc = "next_chat"
    /\ n_chats < MaxChats
    /\ \E kind \in {"missing", "nondict"} :
        /\ n_chats' = n_chats + 1
        /\ n_msgs' = 0
        /\ n_valid' = 0
        /\ summary' = <<>>
        /\ asst_dates' = {}
        /\ ref' = [ref EXCEPT !.summary = <<>>]
    /\ UNCHANGED <<pc, n_nodes, chat, daily_stats, all_message_timestamps,
                   chat_summaries, daily_records, warned, asst_seen>>
    /\ UNCHANGED <<pipeline_vars, cache_vars, agg_vars>>

\* The next conversation has a dict mapping: its nodes are walked.
BeginChat ==
    /\ pc = "next_chat"
    /\ n_chats < MaxChats
    /\ pc' = "in_chat"
    /\ n_chats' = n_chats + 1
    /\ n_msgs' = 0
    /\ n_valid' = 0
    /\ chat' = NewChat
    /\ summary' = <<>>
    /\ asst_dates' = {}
    /\ ref' = [ref EXCEPT !.chat = NewChat, !.summary = <<>>]
    /\ UNCHANGED <<n_nodes, daily_stats, all_message_timestamps,
                   chat_summaries, daily_records, warned, asst_seen>>
    /\ UNCHANGED <<pipeline_vars, cache_vars, agg_vars>>

\* One node of the mapping: extracted (:141-156) and, when it yields a
\* message, folded (:274-296).  The two loops of the code run one after the
\* other; the fold of a message reads nothing of the nodes after it, and an
\* exception of the extraction discards the whole call.
WalkNode ==
    /\ pc = "in_chat"
    /\ n_nodes < MaxTotalNodes
    /\ \E node \in Nodes :
        LET x == ExtractNode(node) IN
        /\ n_nodes' = n_nodes + 1
        /\ IF x.tag = "raise"
           THEN /\ pc' = "raised"
                /\ UNCHANGED <<n_msgs, n_valid, chat, daily_stats,
                               all_message_timestamps, chat_summaries,
                               summary, asst_dates, ref, asst_seen>>
           ELSE IF x.tag = "skip"
           THEN UNCHANGED <<pc, n_msgs, n_valid, chat, daily_stats,
                            all_message_timestamps, chat_summaries,
                            summary, asst_dates, ref, asst_seen>>
           ELSE LET R == ProcessMessage(MainRun, x) IN
                /\ SetMain(R)
                /\ n_msgs' = n_msgs + 1
                /\ n_valid' = IF x.role = "user" /\ ~Unparseable(x)
                              THEN n_valid + 1 ELSE n_valid
                /\ asst_dates' = asst_dates \cup AsstCredited(daily_stats, R.daily_stats)
                /\ ref' = IF Unparseable(x) THEN ref ELSE ProcessMessage(ref, x)
                /\ asst_seen' = SeenAfter(asst_seen, n_valid, x)
                /\ UNCHANGED pc
    /\ UNCHANGED <<n_chats, daily_records, warned>>
    /\ UNCHANGED <<pipeline_vars, cache_vars, agg_vars>>

\* The mapping is exhausted: `if not messages: continue`, else the summary
\* of _process_chat_messages is appended when it is not None (:356-360).
EndChat ==
    /\ pc = "in_chat"
    /\ pc' = "next_chat"
    /\ IF n_msgs = 0
       THEN /\ chat' = NewChat
            /\ UNCHANGED <<daily_stats, all_message_timestamps,
                           chat_summaries, summary>>
       ELSE SetMain(FinishChat(MainRun))
    /\ ref' = FinishChat(ref)
    /\ asst_seen' = SeenAtEnd(asst_seen, n_msgs # 0 /\ chat.message_count # 0)
    /\ UNCHANGED <<n_chats, n_nodes, n_msgs, n_valid, daily_records, warned,
                   asst_dates>>
    /\ UNCHANGED <<pipeline_vars, cache_vars, agg_vars>>

\* The list is exhausted: the warning and the return (:362-369).
Finish ==
    /\ pc = "next_chat"
    /\ pc' = "done"
    /\ warned' = (n_chats > 0 /\ chat_summaries = <<>>)
    /\ daily_records' = BuildDailyRecords(daily_stats)
    /\ UNCHANGED <<n_chats, n_nodes, n_msgs, n_valid, chat, daily_stats,
                   all_message_timestamps, chat_summaries, summary,
                   asst_dates, ref, asst_seen>>
    /\ UNCHANGED <<pipeline_vars, cache_vars, agg_vars>>

IngestNext == SkipChat \/ BeginChat \/ WalkNode \/ EndChat \/ Finish

----------------------------------------------------------------------------
\* process_conversations as a function of the whole list.  A conversation is
\* [mapping, nodes] with mapping in {"dict", "missing", "nondict"}.

\* The loop of _extract_conversation_messages, analytics.py:141-158.
RECURSIVE ExtractNodes(_)
ExtractNodes(nodes) ==
    IF nodes = <<>> THEN [exc |-> "", messages |-> <<>>]
    ELSE LET x == ExtractNode(Head(nodes)) IN
         IF x.tag = "raise" THEN [exc |-> "AttributeError", messages |-> <<>>]
         ELSE LET rest == ExtractNodes(Tail(nodes)) IN
              IF rest.exc # "" THEN rest
              ELSE [exc |-> "",
                    messages |-> (IF x.tag = "msg" THEN <<x>> ELSE <<>>)
                                 \o rest.messages]

ExtractConversationMessages(c) ==
    IF c.mapping # "dict" THEN [exc |-> "", messages |-> <<>>]
    ELSE ExtractNodes(c.nodes)

RECURSIVE ProcessChatMessages(_, _)
ProcessChatMessages(R, msgs) ==
    IF msgs = <<>> THEN FinishChat(R)
    ELSE ProcessChatMessages(ProcessMessage(R, Head(msgs)), Tail(msgs))

\* The loop of process_conversations, analytics.py:354-360.
RECURSIVE FoldConversations(_, _)
FoldConversations(R, convs) ==
    IF convs = <<>> THEN [exc |-> "", run |-> R]
    ELSE LET x == ExtractConversationMessages(Head(convs)) IN
         IF x.exc # "" THEN [exc |-> x.exc, run |-> R]
         ELSE IF x.messages = <<>> THEN FoldConversations(R, Tail(convs))
         ELSE FoldConversations(
                  ProcessChatMessages([R EXCEPT !.chat = NewChat], x.messages),
                  Tail(convs))

ProcessConversations(convs) ==
    LET f == FoldConversations(EmptyRun, convs)
    IN  [exc |-> f.exc,
         summaries |-> f.run.chat_summaries,
         records |-> BuildDailyRecords(f.run.daily_stats),
         timestamps |-> f.run.all_timestamps]

----------------------------------------------------------------------------
\* Calendar arithmetic of the datetime and calendar modules.

\* calendar.isleap
IsLeap(y) == (y % 4 = 0 /\ y % 100 # 0) \/ y % 400 = 0

\* calendar.monthrange(y, m)[1]
MonthRange(y, m) ==
    IF m = 2 THEN (IF IsLeap(y) THEN 29 ELSE 28)
    ELSE IF m \in {4, 6, 9, 11} THEN 30 ELSE 31

\* The day number of date(y, m, d).
DaysFromCivil(y, m, d) ==
    LET yy  == IF m <= 2 THEN y - 1 ELSE y
        era == yy \div 400
        yoe == yy - era * 400
        mp  == IF m > 2 THEN m - 3 ELSE m + 9
        doy == (153 * mp + 2) \div 5 + d - 1
        doe == yoe * 365 + yoe \div 4 - yoe \div 100 + doy
    IN  era * 146097 + doe - 719468

\* datetime.fromisoformat
FromIsoDateTime(s) ==
    [day |-> DaysFromCivil(s.date[1], s.date[2], s.date[3]), sec |-> s.sec]

----------------------------------------------------------------------------
\* Period comparison, analytics.py:1172-1274.

\* The match_fn lambdas of compute_period_comparison: r["date"][:7] == key
\* and r["date"][:4] == key, a key being <<year, month>> or <<year>>.
DatePrefixIs(r, key) == SubSeq(r.date, 1, Len(key)) = key

\* Mutant: a period bucket matches on the year of its key alone.
ComputePeriodBucketYearOnly(daily_records_, key) ==
    LET sel      == SelectSeq(daily_records_,
                              LAMBDA r : DatePrefixIs(r, <<key[1]>>))
        chats    == SumSeq([i \in 1..Len(sel) |-> sel[i].total_chats])
        messages == SumSeq([i \in 1..Len(sel) |-> sel[i].total_messages])
    IN  [chats |-> chats,
         messages |-> messages,
         avg_messages |-> IF chats > 0 THEN Round2(messages, chats) ELSE 0]

\* _compute_period_bucket with match_fn the prefix test for key.
ComputePeriodBucket(daily_records_, key) ==
    LET sel         == SelectSeq(daily_records_, LAMBDA r : DatePrefixIs(r, key))
        chats       == SumSeq([i \in 1..Len(sel) |-> sel[i].total_chats])
        messages    == SumSeq([i \in 1..Len(sel) |-> sel[i].total_messages])
        total_chats == SumSeq([i \in 1..Len(sel) |-> sel[i].total_chats])
    IN  [chats |-> chats,
         messages |-> messages,
         avg_messages |-> IF total_chats > 0 THEN Round2(messages, total_chats)
                          ELSE 0]

\* Mutant: the projections repeat the actual values.
AddPeriodProjectionsUnscaled(stats, elapsed, total) ==
    stats @@
    [elapsed_days |-> elapsed, total_days |-> total,
     projected_chats |-> Round2(stats.chats, 1),
     projected_messages |-> Round2(stats.messages, 1)]

\* round(x * factor, 2) with factor = total / elapsed, or 1 when elapsed is 0
AddPeriodProjections(stats, elapsed, total) ==
    stats @@
    [elapsed_days |-> elapsed,
     total_days |-> total,
     projected_chats |-> IF elapsed > 0 THEN Round2(stats.chats * total, elapsed)
                         ELSE Round2(stats.chats, 1),
     projected_messages |-> IF elapsed > 0
                            THEN Round2(stats.messages * total, elapsed)
                            ELSE Round2(stats.messages, 1)]

\* reference_date is <<>> for None or <<date>>; today is date.today().
ComputePeriodComparison(daily_records_, reference_date, today) ==
    LET rf  == IF reference_date # <<>> THEN reference_date[1] ELSE today
        y   == rf[1]
        m   == rf[2]
        this_month_key == <<y, m>>
        last_month_key == IF m = 1 THEN <<y - 1, 12>> ELSE <<y, m - 1>>
        this_year_key  == <<y>>
        last_year_key  == <<y - 1>>
        month_total_days == MonthRange(y, m)
        year_total_days  == IF IsLeap(y) THEN 366 ELSE 365
        year_elapsed == (DaysFromCivil(y, m, rf[3]) - DaysFromCivil(y, 1, 1)) + 1
    IN  [this_month |-> AddPeriodProjections(
             ComputePeriodBucket(daily_records_, this_month_key),
             rf[3], month_total_days),
         last_month |-> ComputePeriodBucket(daily_records_, last_month_key),
         this_year |-> AddPeriodProjections(
             ComputePeriodBucket(daily_records_, this_year_key),
             year_elapsed, year_total_days),
         last_year |-> ComputePeriodBucket(daily_records_, last_year_key)]

----------------------------------------------------------------------------
\* Payload Builder.

\* min / max of the start times, analytics.py:583-586
RECURSIVE Earliest(_)
Earliest(dts) ==
    IF Len(dts) = 1 THEN dts[1]
    ELSE LET e == Earliest(Tail(dts)) IN IF DtLess(e, dts[1]) THEN e ELSE dts[1]

RECURSIVE Latest(_)
Latest(dts) ==
    IF Len(dts) = 1 THEN dts[1]
    ELSE LET e == Latest(Tail(dts)) IN IF DtLess(dts[1], e) THEN e ELSE dts[1]

\* compute_summary_stats, without its two top-days lists.
ComputeSummaryStats(summaries, records) ==
    LET dates == [i \in 1..Len(summaries) |->
                     FromIsoDateTime(summaries[i].start_time)]
    IN  [total_messages |->
             SumSeq([i \in 1..Len(records) |-> records[i].total_messages]),
         total_chats |-> Len(summaries),
         first_date |-> IF summaries # <<>>
                        THEN <<IsoDate(Earliest(dates).day)>> ELSE <<>>,
         last_date |-> IF summaries # <<>>
                       THEN <<IsoDate(Latest(dates).day)>> ELSE <<>>,
         years_span |-> IF summaries # <<>>
                        THEN Round2(100 * (TotalSeconds(Earliest(dates), Latest(dates))
                                              \div 86400), 36525)
                        ELSE 0]

\* load_conversations: the file is absent, not JSON, or a list of conversations.
LoadConversations(f) ==
    IF f.state = "missing" THEN [exc |-> "FileNotFoundError", convos |-> <<>>]
    ELSE IF f.state = "malformed" THEN [exc |-> "JSONDecodeError", convos |-> <<>>]
    ELSE [exc |-> "", convos |-> f.convos]

\* The sections built from the processed export at wall-clock time now.
PayloadSections(p, now) ==
    [generated_at |-> IsoDateTime(FromTimestamp(now)),
     summary |-> ComputeSummaryStats(p.summaries, p.records),
     comparison |-> ComputePeriodComparison(
                        p.records, <<>>, IsoDate(FromTimestamp(now).day))]

\* Mutant: the time span is measured up to the day of the build.
BuildDashboardPayloadSpanToNow(f, now) ==
    LET l == LoadConversations(f) IN
    IF l.exc # "" THEN [exc |-> l.exc, payload |-> <<>>]
    ELSE LET p == ProcessConversations(l.convos) IN
         IF p.exc # "" THEN [exc |-> p.exc, payload |-> <<>>]
         ELSE LET q == PayloadSections(p, now) IN
              [exc |-> "",
               payload |-> <<[q EXCEPT !.summary.years_span =
                   IF p.summaries = <<>> THEN 0
                   ELSE Round2(100 * (FromTimestamp(now).day
                            - FromIsoDateTime(p.summaries[1].start_time).day),
                          36525)]>>]

\* build_dashboard_payload: the exception it lets through, or its payload.
BuildDashboardPayload(f, now) ==
    LET l == LoadConversations(f) IN
    IF l.exc # "" THEN [exc |-> l.exc, payload |-> <<>>]
    ELSE LET p == ProcessConversations(l.convos) IN
         IF p.exc # "" THEN [exc |-> p.exc, payload |-> <<>>]
         ELSE [exc |-> "", payload |-> <<PayloadSections(p, now)>>]

----------------------------------------------------------------------------
\* The pipeline run twice over one export.

MaxExportNodes == 2
MaxPasses == 2

\* Nodes of the sampled exports: a user message on 2024-01-15, one with code
\* on 2024-01-16, an assistant reply, and a user message without timestamp.
ExportNodes ==
    {[shape |-> "ok", role |-> "user",
      create_time |-> [kind |-> "number", v |-> 1705312800],
      content |-> PlainContent],
     [shape |-> "ok", role |-> "user",
      create_time |-> [kind |-> "numeric_string", v |-> 1705399200],
      content |-> CodeContent],
     [shape |-> "ok", role |-> "assistant", create_time |-> NullTime,
      content |-> PlainContent],
     [shape |-> "ok", role |-> "user", create_time |-> NullTime,
      content |-> CodeContent]}

NodeSeqs(n) == UNION {[1..k -> ExportNodes] : k \in 0..n}

\* Lists of at most two conversations with MaxExportNodes nodes in all.
ExportLists ==
    {<<>>}
    \cup {<<[mapping |-> "dict", nodes |-> a]>> : a \in NodeSeqs(MaxExportNodes)}
    \cup {<<[mapping |-> "dict", nodes |-> a], [mapping |-> "dict", nodes |-> b]>> :
            <<a, b>> \in {x \in NodeSeqs(MaxExportNodes) \X NodeSeqs(MaxExportNodes) :
                            Len(x[1]) + Len(x[2]) <= MaxExportNodes}}

Exports ==
    {[state |-> "missing", convos |-> <<>>], [state |-> "malformed", convos |-> <<>>]}
    \cup {[state |-> "ok", convos |-> c] : c \in ExportLists}

CacheIdle ==
    /\ cache = [data |-> <<>>, built_at |-> 0]
    /\ lock = 0
    /\ clock = 0
    /\ n_ticks = 0
    /\ th = <<>>
    /\ n_builds = 0
    /\ last_store = <<>>
    /\ any_forced = FALSE
    /\ any_failed = FALSE
    /\ first_store = <<>>
    /\ contended = FALSE

PipelineIdle ==
    /\ export = [state |-> "missing", convos |-> <<>>]
    /\ wall = 0
    /\ n_passes = 0
    /\ payloads = <<>>

\* The wall clock starts at 2024-01-31 12:00:00.
PipelineInit ==
    /\ IngestInit /\ CacheIdle /\ AggIdle
    /\ export \in Exports
    /\ wall = 1706702400
    /\ n_passes = 0
    /\ payloads = <<>>

\* One call of build_dashboard_payload on the export.
RunPipeline ==
    /\ Len(payloads) < 2
    /\ payloads' = Append(payloads, BuildDashboardPayload(export, wall))
    /\ UNCHANGED <<export, wall, n_passes>>
    /\ UNCHANGED <<ingest_vars, cache_vars, agg_vars>>

\* An hour or a day goes by.
PassTime ==
    /\ n_passes < MaxPasses
    /\ \E delta \in {3600, 86400} : wall' = wall + delta
    /\ n_passes' = n_passes + 1
    /\ UNCHANGED <<export, payloads>>
    /\ UNCHANGED <<ingest_vars, cache_vars, agg_vars>>

PipelineNext == RunPipeline \/ PassTime

PipelineSpec == PipelineInit /\ [][PipelineNext]_vars

----------------------------------------------------------------------------
\* app.py: the cache and _get_cached_data called from request threads.

CACHE_TTL_SECONDS == 3600

NumThreads == 2
MaxBuilds == 2
MaxTicks == 2

Threads == 1..NumThreads

\* What may be at CONVERSATIONS_PATH: nothing, text that is not JSON, or an
\* export of one conversation.
CacheFiles ==
    {[state |-> "missing", convos |-> <<>>],
     [state |-> "malformed", convos |-> <<>>],
     [state |-> "ok",
      convos |-> <<[mapping |-> "dict",
                    nodes |-> <<[shape |-> "ok", role |-> "user",
                                 create_time |-> [kind |-> "number", v |-> 1705312800],
                                 content |-> PlainContent],
                                [shape |-> "ok", role |-> "assistant",
                                 create_time |-> NullTime,
                                 content |-> CodeContent]>>]>>]}

NoResult == [status |-> 0, data |-> <<>>]

\* A request thread: where it is in _get_cached_data, its argument, and
\* what it returned or raised.  built and found record that it called
\* build_dashboard_payload and what that call found at the path;
\* after_failure that a build had failed before it took the lock; kept that
\* its own failed build found a payload in the cache.
IdleThread ==
    [pc |-> "idle", force |-> FALSE, built |-> FALSE, found |-> "",
     result |-> NoResult, after_failure |-> FALSE, kept |-> FALSE]

\* Mutant: threading.Lock() replaced by a lock that never blocks.
CanAcquireAlways(l) == TRUE

\* `with _cache_lock` is entered when no thread holds the lock.
CanAcquire(l) == l = 0

\* Mutant: the cache is still fresh when exactly CACHE_TTL_SECONDS old.
IsFreshInclusive(force_refresh, c, now) ==
    /\ ~force_refresh
    /\ c.data # <<>>
    /\ (now - c.built_at) <= CACHE_TTL_SECONDS

\* The condition at app.py:51-55.
IsFresh(force_refresh, c, now) ==
    /\ ~force_refresh
    /\ c.data # <<>>
    /\ (now - c.built_at) < CACHE_TTL_SECONDS

\* Mutant: a missing file is answered like a malformed one.
BuildOutcomeOneStatus(r) ==
    IF r.exc \in {"FileNotFoundError", "JSONDecodeError"}
    THEN [status |-> 500, data |-> <<>>]
    ELSE IF r.exc # "" THEN [status |-> -1, data |-> <<>>]
    ELSE [status |-> 200, data |-> r.payload]

\* The try statement at app.py:58-78: the HTTPException raised, the
\* exception let through (status -1), or the payload returned.
BuildOutcome(r) ==
    IF r.exc = "FileNotFoundError" THEN [status |-> 503, data |-> <<>>]
    ELSE IF r.exc = "JSONDecodeError" THEN [status |-> 500, data |-> <<>>]
    ELSE IF r.exc # "" THEN [status |-> -1, data |-> <<>>]
    ELSE [status |-> 200, data |-> r.payload]

CacheInit ==
    /\ IngestInit /\ PipelineIdle /\ AggIdle
    /\ cache = [data |-> <<>>, built_at |-> 0]
    /\ lock = 0
    /\ clock = 0
    /\ n_ticks = 0
    /\ th = [t \in Threads |-> IdleThread]
    /\ n_builds = 0
    /\ last_store = <<>>
    /\ any_forced = FALSE
    /\ any_failed = FALSE
    /\ first_store = <<>>
    /\ contended = FALSE

\* A request thread calls _get_cached_data(force_refresh); it waits at
\* app.py:49 if another thread holds the lock.
Call(t) ==
    /\ th[t].pc \in {"idle", "done"}
    /\ \E force_refresh \in BOOLEAN :
        /\ th' = [th EXCEPT ![t] = [IdleThread EXCEPT !.pc = "waiting",
                                                      !.force = force_refresh]]
        /\ any_forced' = (any_forced \/ force_refresh)
    /\ contended' = (contended \/ lock # 0)
    /\ UNCHANGED <<cache, lock, clock, n_ticks, n_builds, last_store,
                   any_failed, first_store>>
    /\ UNCHANGED <<ingest_vars, pipeline_vars, agg_vars>>

\* app.py:49-56: the lock is taken and the clock read; a fresh cache is
\* returned and the lock released, otherwise the build begins.
Enter(t) ==
    /\ th[t].pc = "waiting"
    /\ CanAcquire(lock)
    /\ IF IsFresh(th[t].force, cache, clock)
       THEN /\ th' = [th EXCEPT ![t].pc = "done",
                                ![t].force = FALSE,
                                ![t].after_failure = any_failed,
                                ![t].result = [status |-> 200, data |-> cache.data]]
            /\ UNCHANGED <<lock, n_builds>>
       ELSE /\ n_builds < MaxBuilds
            /\ th' = [th EXCEPT ![t].pc = "build",
                                ![t].after_failure = any_failed,
                                ![t].built = TRUE]
            /\ lock' = t
            /\ n_builds' = n_builds + 1
    /\ UNCHANGED <<cache, clock, n_ticks, last_store, any_forced, any_failed,
                   first_store, contended>>
    /\ UNCHANGED <<ingest_vars, pipeline_vars, agg_vars>>

\* Mutant: a failed build empties the cache.
StoreAndReturnClearsOnFailure(t, found, o) ==
    /\ th' = [th EXCEPT ![t].pc = "done",
                        ![t].force = FALSE,
                        ![t].found = found,
                        ![t].kept = (o.status # 200 /\ cache.data # <<>>),
                        ![t].result = o]
    /\ IF o.status = 200
       THEN /\ cache' = [data |-> o.data, built_at |-> clock]
            /\ last_store' = <<[at |-> clock, data |-> o.data]>>
            /\ first_store' = IF first_store = <<>> THEN <<clock>>
                              ELSE first_store
            /\ UNCHANGED any_failed
       ELSE /\ any_failed' = TRUE
            /\ cache' = [data |-> <<>>, built_at |-> 0]
            /\ UNCHANGED <<last_store, first_store>>
    /\ lock' = IF lock = t THEN 0 ELSE lock

\* app.py:60-78 for the thread t whose build met `found` at the path and
\* ended with outcome o: the payload is stored with a second reading of the
\* clock, or the HTTPException leaves the cache alone; the lock is released.
StoreAndReturn(t, found, o) ==
    /\ th' = [th EXCEPT ![t].pc = "done",
                        ![t].force = FALSE,
                        ![t].found = found,
                        ![t].kept = (o.status # 200 /\ cache.data # <<>>),
                        ![t].result = o]
    /\ IF o.status = 200
       THEN /\ cache' = [data |-> o.data, built_at |-> clock]
            /\ last_store' = <<[at |-> clock, data |-> o.data]>>
            /\ first_store' = IF first_store = <<>> THEN <<clock>>
                              ELSE first_store
            /\ UNCHANGED any_failed
       ELSE /\ any_failed' = TRUE
            /\ UNCHANGED <<cache, last_store, first_store>>
    /\ lock' = IF lock = t THEN 0 ELSE lock

\* app.py:58-78: build_dashboard_payload reads whatever is at the path and
\* returns or raises.  The wall clock read 2024-01-31 12:00:00 when the
\* process started.
BuildFinish(t) ==
    /\ th[t].pc = "build"
    /\ \E f \in CacheFiles :
        StoreAndReturn(t, f.state,
            BuildOutcome(BuildDashboardPayload(f, 1706702400 + clock)))
    /\ UNCHANGED <<clock, n_ticks, n_builds, any_forced, contended>>
    /\ UNCHANGED <<ingest_vars, pipeline_vars, agg_vars>>

\* The monotonic clock advances.
Tick ==
    /\ n_ticks < MaxTicks
    /\ \E delta \in {1, CACHE_TTL_SECONDS - 1} : clock' = clock + delta
    /\ n_ticks' = n_ticks + 1
    /\ UNCHANGED <<cache, lock, th, n_builds, last_store, any_forced,
                   any_failed, first_store, contended>>
    /\ UNCHANGED <<ingest_vars, pipeline_vars, agg_vars>>

CacheNext ==
    \/ \E t \in Threads : Call(t)
    \/ \E t \in Threads : Enter(t)
    \/ \E t \in Threads : BuildFinish(t)
    \/ Tick

CacheSpec == CacheInit /\ [][CacheNext]_vars

----------------------------------------------------------------------------
\* Sorting.  sorted() and list.sort() are stable; a key is an integer.

RECURSIVE InsertByKey(_, _)
\* p = <<key, item>> put into the ascending ps behind the pairs of equal key
InsertByKey(ps, p) ==
    IF ps = <<>> THEN <<p>>
    ELSE IF p[1] < Head(ps)[1] THEN <<p>> \o ps
    ELSE <<Head(ps)>> \o InsertByKey(Tail(ps), p)

RECURSIVE SortPairs(_)
SortPairs(ps) ==
    IF ps = <<>> THEN <<>>
    ELSE InsertByKey(SortPairs(SubSeq(ps, 1, Len(ps) - 1)), ps[Len(ps)])

\* sorted(s, key=...) with keys[i] the key of s[i]
SortedBy(s, keys) ==
    LET ps == SortPairs([i \in 1..Len(s) |-> <<keys[i], s[i]>>])
    IN  [i \in 1..Len(ps) |-> ps[i][2]]

\* sorted(s, key=..., reverse=True): descending, equal keys in input order
SortedByReverse(s, keys) == SortedBy(s, [i \in 1..Len(s) |-> 0 - keys[i]])

\* The position of a datetime on the time line, in seconds.
Seconds(dt) == dt.day * 86400 + dt.sec

\* sorted(timestamps)
SortedTimestamps(timestamps) ==
    SortedBy(timestamps, [i \in 1..Len(timestamps) |-> Seconds(timestamps[i])])

----------------------------------------------------------------------------
\* Gap analysis, analytics.py:372-444.  length_days, a float number of
\* days, is kept as the whole number of seconds it stands for
\* (length_days * 86400).

\* Mutant: a gap is emitted for equal timestamps too.
EmitsGapAlways(gap_days) == gap_days >= 0

\* analytics.py:411
EmitsGap(gap_days) == gap_days > 0

\* Mutant: the last day is not counted.
DaysInRangeExclusive(start_date, end_date) == end_date - start_date

\* (end_date - start_date).days + 1, analytics.py:427
DaysInRange(start_date, end_date) == (end_date - start_date) + 1

\* The loop at analytics.py:407-418 from index i on.
RECURSIVE ConsecutiveGaps(_, _)
ConsecutiveGaps(sorted_ts, i) ==
    IF i > Len(sorted_ts) THEN <<>>
    ELSE LET gap_days == TotalSeconds(sorted_ts[i - 1], sorted_ts[i])
         IN  (IF EmitsGap(gap_days)
              THEN <<[start_timestamp |-> IsoDateTime(sorted_ts[i - 1]),
                      end_timestamp |-> IsoDateTime(sorted_ts[i]),
                      length_days |-> gap_days]>>
              ELSE <<>>) \o ConsecutiveGaps(sorted_ts, i + 1)

ComputeGapAnalysis(timestamps) ==
    IF timestamps = <<>>
    THEN [gaps |-> <<>>, total_days |-> 0, days_active |-> 0,
          days_inactive |-> 0, proportion_inactive |-> 0, longest_gap |-> <<>>]
    ELSE
    LET sorted_ts  == SortedTimestamps(timestamps)
        emitted    == ConsecutiveGaps(sorted_ts, 2)
        gaps       == SortedByReverse(emitted,
                          [i \in 1..Len(emitted) |-> emitted[i].length_days])
        dates_with_messages == {sorted_ts[i].day : i \in 1..Len(sorted_ts)}
        start_date == sorted_ts[1].day
        end_date   == sorted_ts[Len(sorted_ts)].day
        total_days == DaysInRange(start_date, end_date)
        days_inactive ==
            Cardinality({d \in start_date..end_date : d \notin dates_with_messages})
    IN  [gaps |-> gaps,
         total_days |-> total_days,
         days_active |-> Cardinality(dates_with_messages),
         days_inactive |-> days_inactive,
         proportion_inactive |-> IF total_days > 0
                                 THEN Round2(days_inactive * 100, total_days)
                                 ELSE 0,
         longest_gap |-> IF gaps # <<>> THEN <<gaps[1]>> ELSE <<>>]

----------------------------------------------------------------------------
\* Activity by year, analytics.py:447-552.

\* round(num / den * 100, 1) in tenths, ties to even (num >= 0, den > 0).
RoundPct1(num, den) ==
    LET q == (1000 * num) \div den
        r == (1000 * num) % den
    IN  IF 2 * r > den THEN q + 1
        ELSE IF 2 * r < den THEN q
        ELSE IF q % 2 = 0 THEN q ELSE q + 1

\* date.year
YearOf(d) == IsoDate(d)[1]

\* Mutant: the first year is measured from Jan 1 as well.
YearStartJan1(yr, first_date) == DaysFromCivil(yr, 1, 1)

\* analytics.py:469
YearStart(yr, first_date) ==
    IF yr = YearOf(first_date) THEN first_date ELSE DaysFromCivil(yr, 1, 1)

\* analytics.py:470
YearEnd(yr, last_date) ==
    IF yr = YearOf(last_date) THEN last_date ELSE DaysFromCivil(yr, 12, 31)

\* active_by_year.get(yr, set()) of the dict built at analytics.py:544-546
ActiveByYear(active_dates, yr) == {d \in active_dates : YearOf(d) = yr}

ComputeYearStats(yr, active_dates, first_date, last_date) ==
    LET start    == YearStart(yr, first_date)
        end      == YearEnd(yr, last_date)
        total    == (end - start) + 1
        active   == Cardinality(ActiveByYear(active_dates, yr))
        inactive == total - active
    IN  [year |-> ToString(yr),
         total_days |-> total,
         days_active |-> active,
         days_inactive |-> inactive,
         pct_active |-> IF total > 0 THEN RoundPct1(active, total) ELSE 0,
         pct_inactive |-> IF total > 0 THEN RoundPct1(inactive, total) ELSE 0]

ComputeOverallStats(active_dates, first_date, last_date) ==
    LET total    == (last_date - first_date) + 1
        active   == Cardinality(active_dates)
        inactive == total - active
    IN  [year |-> "Overall",
         total_days |-> total,
         days_active |-> active,
         days_inactive |-> inactive,
         pct_active |-> IF total > 0 THEN RoundPct1(active, total) ELSE 0,
         pct_inactive |-> IF total > 0 THEN RoundPct1(inactive, total) ELSE 0]

\* sorted(keys) of a set of integers
RECURSIVE SortedSet(_)
SortedSet(S) ==
    IF S = {} THEN <<>>
    ELSE LET lo == CHOOSE x \in S : \A y \in S : x <= y
         IN  <<lo>> \o SortedSet(S \ {lo})

\* Mutant: a row for every calendar year from the first to the last.
ComputeActivityByYearEveryYear(timestamps) ==
    IF timestamps = <<>> THEN <<>>
    ELSE
    LET sorted_ts    == SortedTimestamps(timestamps)
        active_dates == {sorted_ts[i].day : i \in 1..Len(sorted_ts)}
        first_date   == sorted_ts[1].day
        last_date    == sorted_ts[Len(sorted_ts)].day
        years        == SortedSet(YearOf(first_date)..YearOf(last_date))
        rows         == [i \in 1..Len(years) |->
                            ComputeYearStats(years[i], active_dates,
                                             first_date, last_date)]
    IN  <<ComputeOverallStats(active_dates, first_date, last_date)>> \o rows

ComputeActivityByYear(timestamps) ==
    IF timestamps = <<>> THEN <<>>
    ELSE
    LET sorted_ts    == SortedTimestamps(timestamps)
        active_dates == {sorted_ts[i].day : i \in 1..Len(sorted_ts)}
        first_date   == sorted_ts[1].day
        last_date    == sorted_ts[Len(sorted_ts)].day
        years        == SortedSet({YearOf(d) : d \in active_dates})
        rows         == [i \in 1..Len(years) |->
                            ComputeYearStats(years[i], active_dates,
                                             first_date, last_date)]
    IN  <<ComputeOverallStats(active_dates, first_date, last_date)>> \o rows

----------------------------------------------------------------------------
\* Weekly data, analytics.py:781-877.

\* date.fromisoformat
FromIsoDate(s) == DaysFromCivil(s[1], s[2], s[3])

\* date.weekday(): Monday is 0; 1970-01-01 was a Thursday.
Weekday(d) == (d + 3) % 7

\* datetime._isoweek1monday: the Monday of the ISO week 1 of a year.
IsoWeek1Monday(year) ==
    LET firstday     == DaysFromCivil(year, 1, 1)
        firstweekday == Weekday(firstday)
        week1monday  == firstday - firstweekday
    IN  IF firstweekday > 3 THEN week1monday + 7 ELSE week1monday

\* date.isocalendar()[:2]: the ISO year and the ISO week number.
IsoCalendar(d) ==
    LET year == YearOf(d)
        w1   == IsoWeek1Monday(year)
    IN  IF d < w1
        THEN <<year - 1, (d - IsoWeek1Monday(year - 1)) \div 7 + 1>>
        ELSE IF (d - w1) \div 7 >= 52 /\ d >= IsoWeek1Monday(year + 1)
        THEN <<year + 1, 1>>
        ELSE <<year, (d - w1) \div 7 + 1>>

\* Mutant: the key is made of the calendar year and the ISO week number.
WeekKeyCalendarYear(d) == <<YearOf(d), IsoCalendar(d)[2]>>

\* week_key, "YYYY-Www", as <<ISO year, ISO week>>; analytics.py:801-802
WeekKey(d) == IsoCalendar(d)

\* index of the bucket of week_key in the dict, 0 if there is none
WeekIndex(weekly, week_key) ==
    IF \E i \in 1..Len(weekly) : weekly[i].key = week_key
    THEN CHOOSE i \in 1..Len(weekly) : weekly[i].key = week_key
    ELSE 0

\* The body of the loop of _build_weekly_buckets for the record r.
AddToWeek(weekly, r) ==
    LET d        == FromIsoDate(r.date)
        week_key == WeekKey(d)
        monday   == d - Weekday(d)
        w0       == IF WeekIndex(weekly, week_key) = 0
                    THEN Append(weekly, [key |-> week_key,
                                         monday |-> IsoDate(monday),
                                         chats |-> 0, messages |-> 0,
                                         total_msgs |-> 0, total_chats |-> 0])
                    ELSE weekly
        i        == WeekIndex(w0, week_key)
    IN  [w0 EXCEPT ![i].chats = @ + r.total_chats,
                   ![i].messages = @ + r.total_messages,
                   ![i].total_msgs = @ + r.total_messages,
                   ![i].total_chats = @ + r.total_chats]

RECURSIVE BuildWeeklyBuckets(_)
BuildWeeklyBuckets(sorted_records) ==
    IF sorted_records = <<>> THEN <<>>
    ELSE AddToWeek(BuildWeeklyBuckets(SubSeq(sorted_records, 1,
                                             Len(sorted_records) - 1)),
                   sorted_records[Len(sorted_records)])

\* The buckets in the order of sorted(weekly.keys()), as parallel lists.
WeeklySeriesFromBuckets(weekly) ==
    LET b == SortedBy(weekly, [i \in 1..Len(weekly) |->
                                  weekly[i].key[1] * 100 + weekly[i].key[2]])
    IN  [weeks |-> [i \in 1..Len(b) |-> b[i].monday],
         chats |-> [i \in 1..Len(b) |-> b[i].chats],
         messages |-> [i \in 1..Len(b) |-> b[i].messages],
         avg_messages |-> [i \in 1..Len(b) |->
                              IF b[i].total_chats > 0
                              THEN Round2(b[i].total_msgs, b[i].total_chats)
                              ELSE 0]]

\* sorted(daily_records, key=lambda r: r["date"])
SortedByDate(daily_records_) ==
    SortedBy(daily_records_, [i \in 1..Len(daily_records_) |->
                                 FromIsoDate(daily_records_[i].date)])

\* compute_weekly_data, without its rolling averages.
ComputeWeeklyData(daily_records_) ==
    WeeklySeriesFromBuckets(BuildWeeklyBuckets(SortedByDate(daily_records_)))

----------------------------------------------------------------------------
\* Monthly data, analytics.py:717-769.

\* index of the bucket of month in the dict, 0 if there is none
MonthIndex(monthly, month) ==
    IF \E i \in 1..Len(monthly) : monthly[i].key = month
    THEN CHOOSE i \in 1..Len(monthly) : monthly[i].key = month
    ELSE 0

\* The body of the loop of _build_monthly_buckets for the record r.
AddToMonth(monthly, r) ==
    LET month == <<r.date[1], r.date[2]>>
        m0    == IF MonthIndex(monthly, month) = 0
                 THEN Append(monthly, [key |-> month, chats |-> 0, messages |-> 0,
                                       total_msgs_raw |-> 0, total_chats_raw |-> 0])
                 ELSE monthly
        i     == MonthIndex(m0, month)
    IN  [m0 EXCEPT ![i].chats = @ + r.total_chats,
                   ![i].messages = @ + r.total_messages,
                   ![i].total_msgs_raw = @ + r.total_messages,
                   ![i].total_chats_raw = @ + r.total_chats]

RECURSIVE BuildMonthlyBuckets(_)
BuildMonthlyBuckets(sorted_records) ==
    IF sorted_records = <<>> THEN <<>>
    ELSE AddToMonth(BuildMonthlyBuckets(SubSeq(sorted_records, 1,
                                               Len(sorted_records) - 1)),
                    sorted_records[Len(sorted_records)])

\* sorted(monthly.keys()), as the buckets in that order
SortedMonths(monthly) ==
    SortedBy(monthly, [i \in 1..Len(monthly) |->
                          monthly[i].key[1] * 100 + monthly[i].key[2]])

\* Mutant: avg_messages is the mean of the avg_messages_per_chat of the
\* days of the month.
ComputeMonthlyDataMeanOfDays(daily_records_) ==
    LET b == SortedMonths(BuildMonthlyBuckets(SortedByDate(daily_records_)))
        days(k) == SelectSeq(daily_records_,
                             LAMBDA r : <<r.date[1], r.date[2]>> = k)
    IN  [months |-> [i \in 1..Len(b) |-> b[i].key],
         chats |-> [i \in 1..Len(b) |-> b[i].chats],
         messages |-> [i \in 1..Len(b) |-> b[i].messages],
         avg_messages |-> [i \in 1..Len(b) |->
             LET ds == days(b[i].key)
             IN  Round2(SumSeq([j \in 1..Len(ds) |-> ds[j].avg_messages_per_chat]),
                        100 * Len(ds))]]

\* compute_monthly_data, without its rolling averages.
ComputeMonthlyData(daily_records_) ==
    LET b == SortedMonths(BuildMonthlyBuckets(SortedByDate(daily_records_)))
    IN  [months |-> [i \in 1..Len(b) |-> b[i].key],
         chats |-> [i \in 1..Len(b) |-> b[i].chats],
         messages |-> [i \in 1..Len(b) |-> b[i].messages],
         avg_messages |-> [i \in 1..Len(b) |->
                              IF b[i].total_chats_raw > 0
                              THEN Round2(b[i].total_msgs_raw, b[i].total_chats_raw)
                              ELSE 0]]

----------------------------------------------------------------------------
\* Rolling average, analytics.py:606-624.  The series are Python floats:
\* IEEE 754 binary64, every operation rounded to nearest, ties to even.  A
\* float that is not negative is [m, e] for m * 2^e with 2^52 <= m < 2^53,
\* or m = 0 and e = 0.  A mantissa is wider than a 32-bit integer and is
\* written as four digits of base Limb, lowest first.

Limb == 1048576

\* The digits after the carries of the digit-wise result x.
Carry(x) ==
    LET s2 == x[2] + (x[1] \div Limb)
        s3 == x[3] + (s2 \div Limb)
    IN  <<x[1] % Limb, s2 % Limb, s3 % Limb, x[4] + (s3 \div Limb)>>

BigOf(n) == <<n % Limb, n \div Limb, 0, 0>>

BigZero == <<0, 0, 0, 0>>

BigAdd(x, y) == Carry(<<x[1] + y[1], x[2] + y[2], x[3] + y[3], x[4] + y[4]>>)

\* x * k for 0 <= k < 1024
BigTimes(x, k) == Carry(<<x[1] * k, x[2] * k, x[3] * k, x[4] * k>>)

\* x // k and x % k for 1 <= k < 1024, as [q, r].
BigDivMod(x, k) ==
    LET t3 == (x[4] % k) * Limb + x[3]
        t2 == (t3 % k) * Limb + x[2]
        t1 == (t2 % k) * Limb + x[1]
    IN  [q |-> <<t1 \div k, t2 \div k, t3 \div k, x[4] \div k>>, r |-> t1 % k]

BigLess(x, y) ==
    \E i \in 1..4 :
        /\ x[i] < y[i]
        /\ \A j \in (i + 1)..4 : x[j] = y[j]

BigLeq(x, y) == x = y \/ BigLess(x, y)

BigOdd(x) == x[1] % 2 = 1

\* x * 2^d
RECURSIVE Shl(_, _)
Shl(x, d) == IF d = 0 THEN x ELSE Shl(BigTimes(x, 2), d - 1)

\* x // 2^d, and whether a bit set was shifted out, as [m, sticky].
RECURSIVE Shr(_, _, _)
Shr(x, d, sticky) ==
    IF d = 0 \/ x = BigZero THEN [m |-> x, sticky |-> sticky]
    ELSE Shr(BigDivMod(x, 2).q, d - 1, sticky \/ BigOdd(x))

\* 2^52 and 2^53
Two52 == <<0, 0, 4096, 0>>
Two53 == <<0, 0, 8192, 0>>

FloatZero == [m |-> BigZero, e |-> 0]

\* The float nearest to m * 2^e plus the bits shifted out so far (guard is
\* the last of them, sticky says that one before it was set), ties to even.
RECURSIVE RoundNearestEven(_, _, _, _)
RoundNearestEven(m, e, guard, sticky) ==
    IF BigLess(m, Two53)
    THEN LET up == guard /\ (sticky \/ BigOdd(m))
             m2 == IF up THEN BigAdd(m, BigOf(1)) ELSE m
         IN  IF m2 = Two53 THEN [m |-> Two52, e |-> e + 1]
             ELSE [m |-> m2, e |-> e]
    ELSE RoundNearestEven(BigDivMod(m, 2).q, e + 1, BigOdd(m), sticky \/ guard)

\* m * 2^e with the mantissa brought up to 2^52; m is not zero.
RECURSIVE ScaleUp(_, _)
ScaleUp(m, e) ==
    IF BigLeq(Two52, m) THEN [m |-> m, e |-> e]
    ELSE ScaleUp(BigTimes(m, 2), e - 1)

\* float(n) for 0 <= n < 2^31
FloatOf(n) == IF n = 0 THEN FloatZero ELSE ScaleUp(BigOf(n), 0)

\* x + y: the smaller term is brought to the exponent of the larger with
\* three more bits and the rest as sticky.
FloatAdd(x, y) ==
    IF x.m = BigZero THEN y
    ELSE IF y.m = BigZero THEN x
    ELSE LET hi == IF x.e >= y.e THEN x ELSE y
             lo == IF x.e >= y.e THEN y ELSE x
             s  == Shr(BigTimes(lo.m, 8), hi.e - lo.e, FALSE)
         IN  RoundNearestEven(BigAdd(BigTimes(hi.m, 8), s.m), hi.e - 3,
                              FALSE, s.sticky)

\* x / n for an int 1 <= n < 1024
FloatDivInt(x, n) ==
    IF x.m = BigZero THEN FloatZero
    ELSE LET d == BigDivMod(Shl(x.m, 11), n)
         IN  RoundNearestEven(d.q, x.e - 11, FALSE, d.r # 0)

\* sum(w): 0 + w[0] + w[1] + ..., from the left.
RECURSIVE FloatSum(_)
FloatSum(w) ==
    IF w = <<>> THEN FloatZero
    ELSE FloatAdd(FloatSum(SubSeq(w, 1, Len(w) - 1)), w[Len(w)])

\* Mutant: the window reaches one value further back.
RollingAvgOneMore(values, window) ==
    [i \in 1..Len(values) |->
        LET start == IF i - window > 1 THEN i - window ELSE 1
            w     == SubSeq(values, start, i)
        IN  FloatDivInt(FloatSum(w), Len(w))]

\* _rolling_avg; positions count from 1.
RollingAvg(values, window) ==
    [i \in 1..Len(values) |->
        LET start == IF i - window + 1 > 1 THEN i - window + 1 ELSE 1
            w     == SubSeq(values, start, i)
        IN  FloatDivInt(FloatSum(w), Len(w))]

----------------------------------------------------------------------------
\* Length distribution, analytics.py:1134-1169.

\* Mutant: 50 messages open the last bucket.
LengthBucketsFrom50 ==
    <<[label |-> "1-2", lo |-> 1, hi |-> <<2>>],
      [label |-> "3-5", lo |-> 3, hi |-> <<5>>],
      [label |-> "6-10", lo |-> 6, hi |-> <<10>>],
      [label |-> "11-20", lo |-> 11, hi |-> <<20>>],
      [label |-> "21-50", lo |-> 21, hi |-> <<49>>],
      [label |-> "50+", lo |-> 50, hi |-> <<>>]>>

\* _LENGTH_BUCKETS; hi is <<>> for float("inf").
LengthBuckets ==
    <<[label |-> "1-2", lo |-> 1, hi |-> <<2>>],
      [label |-> "3-5", lo |-> 3, hi |-> <<5>>],
      [label |-> "6-10", lo |-> 6, hi |-> <<10>>],
      [label |-> "11-20", lo |-> 11, hi |-> <<20>>],
      [label |-> "21-50", lo |-> 21, hi |-> <<50>>],
      [label |-> "50+", lo |-> 51, hi |-> <<>>]>>

\* lo <= mc <= hi
InBucket(b, mc) == b.lo <= mc /\ (b.hi = <<>> \/ mc <= b.hi[1])

\* The inner loop: index of the first bucket that holds mc, 0 if none does.
FirstBucket(mc) ==
    IF \E i \in 1..Len(LengthBuckets) : InBucket(LengthBuckets[i], mc)
    THEN CHOOSE i \in 1..Len(LengthBuckets) :
             /\ InBucket(LengthBuckets[i], mc)
             /\ \A j \in 1..(i - 1) : ~InBucket(LengthBuckets[j], mc)
    ELSE 0

RECURSIVE LengthCounts(_)
LengthCounts(summaries) ==
    IF summaries = <<>> THEN [i \in 1..Len(LengthBuckets) |-> 0]
    ELSE LET counts == LengthCounts(SubSeq(summaries, 1, Len(summaries) - 1))
             i      == FirstBucket(summaries[Len(summaries)].message_count)
         IN  IF i = 0 THEN counts ELSE [counts EXCEPT ![i] = @ + 1]

ComputeLengthDistribution(summaries) ==
    [buckets |-> [i \in 1..Len(LengthBuckets) |-> LengthBuckets[i].label],
     counts |-> LengthCounts(summaries)]

----------------------------------------------------------------------------
\* Top records and top gaps per year, analytics.py:1277-1330.

\* Mutant: the cap is on the whole list.
TopRecordsOverall(records, per_year) ==
    SubSeq(records, 1, IF Len(records) < per_year THEN Len(records) ELSE per_year)

\* buckets[yr] counts the records of the year yr appended so far.
RECURSIVE TopRecordsPerYear(_, _)
TopRecordsPerYear(records, per_year) ==
    IF records = <<>> THEN <<>>
    ELSE LET result == TopRecordsPerYear(SubSeq(records, 1, Len(records) - 1),
                                         per_year)
             r      == records[Len(records)]
             count  == Cardinality({i \in 1..Len(result) :
                                       result[i].date[1] = r.date[1]})
         IN  IF count < per_year THEN Append(result, r) ELSE result

\* g["start_timestamp"][:4]
GapYear(g) == g.start_timestamp.date[1]

\* The dict buckets after the loop at analytics.py:1323-1327: one entry per
\* year in the order of first appearance, each with its capped list.
RECURSIVE GapBuckets(_, _)
GapBuckets(gaps, per_year) ==
    IF gaps = <<>> THEN <<>>
    ELSE LET buckets == GapBuckets(SubSeq(gaps, 1, Len(gaps) - 1), per_year)
             g       == gaps[Len(gaps)]
             b0      == IF \E i \in 1..Len(buckets) : buckets[i].yr = GapYear(g)
                        THEN buckets
                        ELSE Append(buckets, [yr |-> GapYear(g), bucket |-> <<>>])
             i       == CHOOSE i \in 1..Len(b0) : b0[i].yr = GapYear(g)
         IN  IF Len(b0[i].bucket) < per_year
             THEN [b0 EXCEPT ![i].bucket = Append(@, g)]
             ELSE b0

\* [g for bucket in buckets.values() for g in bucket]
RECURSIVE Merged(_)
Merged(buckets) ==
    IF buckets = <<>> THEN <<>>
    ELSE Head(buckets).bucket \o Merged(Tail(buckets))

\* Mutant: the merged buckets are returned as they are.
TopGapsPerYearUnsorted(gaps, per_year) == Merged(GapBuckets(gaps, per_year))

TopGapsPerYear(gaps, per_year) ==
    LET merged == Merged(GapBuckets(gaps, per_year))
    IN  SortedByReverse(merged, [i \in 1..Len(merged) |-> merged[i].length_days])

----------------------------------------------------------------------------
\* The aggregators called one at a time on sampled inputs.

MaxTimestamps == 3

\* Two times of 2023-12-30, and times of 2024-01-01, 2024-12-31, 2025-03-01.
SampleTimes ==
    {[day |-> DaysFromCivil(2023, 12, 30), sec |-> 36000],
     [day |-> DaysFromCivil(2023, 12, 30), sec |-> 79200],
     [day |-> DaysFromCivil(2024, 1, 1), sec |-> 36000],
     [day |-> DaysFromCivil(2024, 12, 31), sec |-> 36000],
     [day |-> DaysFromCivil(2025, 3, 1), sec |-> 32400]}

MaxRecords == 3

\* Dates of daily records: Mon 2024-01-15, Tue 2024-01-16, Mon 2024-01-22,
\* and around the turn of a year Sun 2021-01-03 (ISO 2020-W53),
\* Mon 2021-01-04, Sun 2024-12-29 (ISO 2024-W52), Mon 2024-12-30 and
\* Wed 2025-01-01 (both ISO 2025-W01), and Thu 2023-06-08, a date that
\* holds a message and no conversation.
SampleDates ==
    {<<2024, 1, 15>>, <<2024, 1, 16>>, <<2024, 1, 22>>, <<2021, 1, 3>>,
     <<2021, 1, 4>>, <<2024, 12, 29>>, <<2024, 12, 30>>, <<2025, 1, 1>>,
     <<2023, 6, 8>>}

\* The daily record of a date: up to two conversations, up to four messages.
SampleRecord(date) ==
    LET chats_ == IF date[3] = 8 THEN 0 ELSE 1 + (date[3] % 2)
        msgs   == IF date[3] = 8 THEN 1 ELSE 1 + (date[3] % 2) + (date[3] % 3)
    IN  [date |-> date,
         total_chats |-> chats_,
         total_messages |-> msgs,
         avg_messages_per_chat |-> IF chats_ = 0 THEN 0 ELSE Round2(msgs, chats_)]

\* Lists of daily records of distinct dates, in any order.
RecordLists ==
    {rs \in UNION {[1..n -> {SampleRecord(d) : d \in SampleDates}] :
                      n \in 0..MaxRecords} :
        \A i, j \in 1..Len(rs) : i # j => rs[i].date # rs[j].date}

\* Reference dates: in January, on the last day of a leap February, on the
\* first and on the last day of a year, and in a common February.
ReferenceDates ==
    {<<2024, 1, 15>>, <<2024, 2, 29>>, <<2025, 1, 1>>, <<2024, 12, 31>>,
     <<2025, 2, 10>>}

MaxSummaries == 2
MaxPerYear == 2
MaxGaps == 3

MaxSeries == 3
MaxWindow == 3

\* Values of a series in hundredths: 0, 0.1, 1, 2, 3.
SampleHundredths == {0, 10, 100, 200, 300}

\* The float a value of h hundredths is: the one nearest to h / 100.
FloatOfHundredths(h) == FloatDivInt(FloatOf(h), 100)

\* Series in hundredths, of any length up to MaxSeries.
SeriesLists == UNION {[1..n -> SampleHundredths] : n \in 0..MaxSeries}

\* Message counts at both ends of every bucket, and 0.
SampleCounts == {0, 1, 2, 3, 5, 6, 10, 11, 20, 21, 50, 51, 1000}

\* Lists of summaries; only message_count is read.
SummaryLists ==
    UNION {[1..n -> {[message_count |-> c] : c \in SampleCounts}] :
              n \in 0..MaxSummaries}

\* The gap of `seconds` seconds that starts at start.
Gap(start, seconds) ==
    [start_timestamp |-> IsoDateTime(start),
     end_timestamp |-> IsoDateTime(FromTimestamp(Seconds(start) + seconds)),
     length_days |-> seconds]

\* Three gaps of three days, two starting in 2023 and one in 2024, a gap of
\* two days in 2024 and one of one day in 2023.
SampleGaps ==
    {Gap([day |-> DaysFromCivil(2023, 3, 1), sec |-> 36000], 259200),
     Gap([day |-> DaysFromCivil(2023, 6, 1), sec |-> 36000], 259200),
     Gap([day |-> DaysFromCivil(2024, 2, 1), sec |-> 36000], 259200),
     Gap([day |-> DaysFromCivil(2024, 5, 1), sec |-> 36000], 172800),
     Gap([day |-> DaysFromCivil(2023, 9, 1), sec |-> 36000], 86400)}

\* Lists of distinct gaps sorted descending by length, as compute_gap_analysis
\* returns them.
GapLists ==
    {gs \in UNION {[1..n -> SampleGaps] : n \in 0..MaxGaps} :
        /\ \A i, j \in 1..Len(gs) : i # j => gs[i] # gs[j]
        /\ \A i \in 1..(Len(gs) - 1) : gs[i].length_days >= gs[i + 1].length_days}

\* Lists of timestamps in any order, duplicates allowed.
TimestampLists == UNION {[1..n -> SampleTimes] : n \in 0..MaxTimestamps}

\* A call of one aggregator with arguments from the samples, before it runs.
AggInit ==
    /\ IngestInit /\ PipelineIdle /\ CacheIdle
    /\ out = <<>>
    /\ \/ fn = "compute_gap_analysis" /\ arg \in TimestampLists
       \/ fn = "compute_activity_by_year" /\ arg \in TimestampLists
       \/ fn = "compute_weekly_data" /\ arg \in RecordLists
       \/ fn = "compute_monthly_data" /\ arg \in RecordLists
       \/ fn = "compute_length_distribution" /\ arg \in SummaryLists
       \/ \E vs \in SeriesLists, w \in 1..MaxWindow :
             fn = "_rolling_avg" /\ arg = [values |-> vs, window |-> w]
       \/ \E rs \in RecordLists, n \in 0..MaxPerYear :
             fn = "_top_records_per_year" /\ arg = [records |-> rs, per_year |-> n]
       \/ \E gs \in GapLists, n \in 0..MaxPerYear :
             fn = "_top_gaps_per_year" /\ arg = [gaps |-> gs, per_year |-> n]
       \/ \E rs \in RecordLists, d \in ReferenceDates :
             fn = "compute_period_comparison"
             /\ arg = [daily_records |-> rs, reference_date |-> d]

\* The call returns r.
Returns(r) ==
    /\ out = <<>>
    /\ out' = <<r>>
    /\ UNCHANGED <<fn, arg>>
    /\ UNCHANGED <<ingest_vars, pipeline_vars, cache_vars>>

CallComputeGapAnalysis ==
    /\ fn = "compute_gap_analysis"
    /\ Returns(ComputeGapAnalysis(arg))

CallComputeActivityByYear ==
    /\ fn = "compute_activity_by_year"
    /\ Returns(ComputeActivityByYear(arg))

CallComputeWeeklyData ==
    /\ fn = "compute_weekly_data"
    /\ Returns(ComputeWeeklyData(arg))

\* compute_period_comparison(daily_records, reference_date); date.today()
\* is not read when a reference date is passed.
CallComputeMonthlyData ==
    /\ fn = "compute_monthly_data"
    /\ Returns(ComputeMonthlyData(arg))

CallComputePeriodComparison ==
    /\ fn = "compute_period_comparison"
    /\ Returns(ComputePeriodComparison(arg.daily_records,
                                       <<arg.reference_date>>,
                                       arg.reference_date))

CallComputeLengthDistribution ==
    /\ fn = "compute_length_distribution"
    /\ Returns(ComputeLengthDistribution(arg))

\* The values of the series in the call, as floats.
SeriesValues == [i \in 1..Len(arg.values) |-> FloatOfHundredths(arg.values[i])]

CallRollingAvg ==
    /\ fn = "_rolling_avg"
    /\ Returns(RollingAvg(SeriesValues, arg.window))

CallTopRecordsPerYear ==
    /\ fn = "_top_records_per_year"
    /\ Returns(TopRecordsPerYear(arg.records, arg.per_year))

CallTopGapsPerYear ==
    /\ fn = "_top_gaps_per_year"
    /\ Returns(TopGapsPerYear(arg.gaps, arg.per_year))

AggNext ==
    \/ CallComputeLengthDistribution
    \/ CallRollingAvg
    \/ CallTopRecordsPerYear
    \/ CallTopGapsPerYear
    \/ CallComputePeriodComparison
    \/ CallComputeGapAnalysis
    \/ CallComputeActivityByYear
    \/ CallComputeWeeklyData
    \/ CallComputeMonthlyData

AggSpec == AggInit /\ [][AggNext]_vars

----------------------------------------------------------------------------
Init == IngestInit /\ PipelineIdle /\ CacheIdle /\ AggIdle

Next == IngestNext

Spec == Init /\ [][Next]_vars

----------------------------------------------------------------------------
\* Properties of the ingestion fold.

\* ISO strings compare as the instants they denote.
IsoLessEq(a, b) ==
    LET x == <<a.date[1], a.date[2], a.date[3], a.sec>>
        y == <<b.date[1], b.date[2], b.date[3], b.sec>>
    IN  \/ x = y
        \/ \E i \in 1..4 : x[i] < y[i] /\ \A j \in 1..(i - 1) : x[j] = y[j]

TotalMessages(recs) == SumSeq([i \in 1..Len(recs) |-> recs[i].total_messages])

\* C1: the total_messages of the daily buckets always sum to the length of
\* the user-timestamp list, during the fold and in the returned records.
C1_MessagesMatchTimestamps ==
    /\ TotalMessages(daily_stats) = Len(all_message_timestamps)
    /\ pc = "done" => TotalMessages(daily_records) = Len(all_message_timestamps)

\* Two conversations were folded into two dates, one node adding nothing.
C1_Witness ==
    /\ pc = "done"
    /\ Len(daily_records) = 2
    /\ Len(all_message_timestamps) = 2
    /\ n_nodes = 3
    /\ Len(chat_summaries) = 2

\* C2: every summary has message_count >= 1, end_time >= start_time and
\* duration_minutes >= 0, and a conversation yields one only if it had a
\* user message with a parseable timestamp.
C2_SummaryWellFormed ==
    /\ \A i \in 1..Len(chat_summaries) :
          /\ chat_summaries[i].message_count >= 1
          /\ IsoLessEq(chat_summaries[i].start_time, chat_summaries[i].end_time)
          /\ chat_summaries[i].duration_minutes >= 0
    /\ summary # <<>> => n_valid >= 1

\* A summary whose end is after its start, built from messages met latest first.
C2_Witness ==
    /\ summary # <<>>
    /\ summary[1].message_count = 2
    /\ summary[1].duration_minutes > 0
    /\ all_message_timestamps[1].day > all_message_timestamps[2].day

\* C3 as stated: the dates credited with a conversation's assistant stats
\* are the date of its summary.
C3_AsstOnSummaryDate ==
    summary # <<>> => \A d \in asst_dates : IsoDate(d) = summary[1].date

\* C3 as amended: an assistant message's stats go to the bucket of the
\* running start date at the time the message is processed.
C3_AsstOnRunningStartDate ==
    [][\A d \in AsstCredited(daily_stats, daily_stats') :
          chat.start # <<>> /\ d = chat.start[1].day]_ingest_vars

\* A conversation credited assistant stats and produced its summary.
C3_Witness ==
    /\ summary # <<>>
    /\ asst_dates # {}
    /\ summary[1].message_count = 2

\* C4: a user message with a null or unconvertible create_time leaves the
\* three results as they are without it.
C4_UnparseableUserLeavesNoTrace ==
    pc = "done" =>
        /\ chat_summaries = ref.chat_summaries
        /\ daily_records = BuildDailyRecords(ref.daily_stats)
        /\ all_message_timestamps = ref.all_timestamps

\* C5: while a conversation has shown no user message with a parseable
\* timestamp, no step of it changes the accumulator, the timestamp list or
\* the summaries, and it ends with None.
C5_NoValidUserNoEffect ==
    [][(pc = "in_chat" /\ n_valid' = 0) =>
          /\ daily_stats' = daily_stats
          /\ all_message_timestamps' = all_message_timestamps
          /\ chat_summaries' = chat_summaries
          /\ (pc' = "next_chat" => summary' = <<>>)]_ingest_vars

\* A conversation of an assistant message and an unparseable user message
\* returned None after an earlier conversation had filled a bucket.
C5_Witness ==
    /\ pc = "next_chat"
    /\ n_chats = 2
    /\ n_msgs = 2
    /\ n_valid = 0
    /\ summary = <<>>
    /\ Len(daily_stats) = 1

\* C6: no rejected conversation or node makes process_conversations raise.
C6_RejectionNeverAborts == pc # "raised"

----------------------------------------------------------------------------
\* Properties of the payload builder.

\* A payload without its generation timestamp.
ExceptGeneratedAt(r) ==
    [exc |-> r.exc,
     payload |-> IF r.payload = <<>> THEN <<>>
                 ELSE <<[summary |-> r.payload[1].summary,
                         comparison |-> r.payload[1].comparison]>>]

----------------------------------------------------------------------------
\* Properties of the cache.

\* The thread t passes app.py:49-56 in this step.
Enters(t) == th[t].pc = "waiting" /\ th'[t].pc # "waiting"

\* C8: a call builds iff it is forced, or nothing was stored yet, or the
\* last store is at least CACHE_TTL_SECONDS old; every other call returns
\* the payload of the last successful build and builds nothing.
C8_BuildIffForcedEmptyOrExpired ==
    [][\A t \in Threads : Enters(t) =>
        LET must == \/ th[t].force
                    \/ last_store = <<>>
                    \/ clock - last_store[1].at >= CACHE_TTL_SECONDS
        IN  /\ (th'[t].pc = "build" /\ n_builds' = n_builds + 1) <=> must
            /\ ~must => /\ th'[t].pc = "done"
                        /\ th'[t].result = [status |-> 200,
                                            data |-> last_store[1].data]
                        /\ n_builds' = n_builds
                        /\ cache' = cache]_cache_vars

\* A call served from the cache, and a later unforced call that rebuilds
\* exactly CACHE_TTL_SECONDS after the store.
C8_Witness ==
    \E t, u \in Threads :
        /\ th[t].pc = "done" /\ ~th[t].built /\ th[t].result.status = 200
        /\ th[u].pc = "build" /\ ~th[u].force
        /\ last_store # <<>>
        /\ clock - last_store[1].at = CACHE_TTL_SECONDS

\* C9: at most one thread is inside build_dashboard_payload; and while no
\* call was forced, no build failed and the TTL has not elapsed since the
\* first store, there was at most one build, exactly one once a call has
\* returned, and every returned call has the one stored payload.
C9_RebuildsSerialized ==
    /\ Cardinality({t \in Threads : th[t].pc = "build"}) <= 1
    /\ (/\ ~any_forced
        /\ ~any_failed
        /\ first_store # <<>> => clock - first_store[1] < CACHE_TTL_SECONDS)
       => /\ n_builds <= 1
          /\ \A t \in Threads : th[t].pc = "done" =>
                /\ n_builds = 1
                /\ last_store # <<>>
                /\ th[t].result = [status |-> 200, data |-> last_store[1].data]

\* Unforced calls arrived while the cache was empty, one of them while
\* the lock was held; one built, and all have returned.
C9_Witness ==
    /\ ~any_forced /\ ~any_failed /\ contended
    /\ n_builds = 1
    /\ \A t \in Threads : th[t].pc = "done"
    /\ \E t, u \in Threads :
        /\ th[t].built /\ ~th[u].built
        /\ th[u].result = th[t].result

\* C10: a build that found the file missing answers 503, one that found it
\* malformed answers 500, neither with a payload; build_dashboard_payload
\* lets FileNotFoundError and JSONDecodeError through.
C10_SourceFailuresSurfaced ==
    /\ \A t \in Threads : th[t].pc = "done" /\ th[t].built =>
        /\ th[t].found = "missing" => th[t].result = [status |-> 503, data |-> <<>>]
        /\ th[t].found = "malformed" => th[t].result = [status |-> 500, data |-> <<>>]
    /\ \A f \in CacheFiles :
        /\ f.state = "missing" =>
             BuildDashboardPayload(f, clock) = [exc |-> "FileNotFoundError",
                                                payload |-> <<>>]
        /\ f.state = "malformed" =>
             BuildDashboardPayload(f, clock) = [exc |-> "JSONDecodeError",
                                                payload |-> <<>>]

\* One request met a missing file and another a malformed one.
C10_Witness ==
    \E t, u \in Threads :
        /\ th[t].pc = "done" /\ th[t].found = "missing"
        /\ th[t].result.status = 503
        /\ th[u].pc = "done" /\ th[u].found = "malformed"
        /\ th[u].result.status = 500

----------------------------------------------------------------------------
\* Properties of the gap analysis.

\* The timestamps of a list, as positions on the time line.
TimeSet(ts) == {Seconds(ts[i]) : i \in 1..Len(ts)}

\* The position on the time line of an isoformat() string.
IsoSeconds(s) == Seconds(FromIsoDateTime(s))

GapCalled == fn = "compute_gap_analysis" /\ out # <<>>

\* C11: the gaps are exactly the pairs of neighbouring distinct timestamps
\* (one gap per pair, none of length 0), in non-increasing order of length,
\* and longest_gap is the first of them, or None.
C11_GapsBetweenNeighbours ==
    GapCalled =>
        LET gaps == out[1].gaps
            T    == TimeSet(arg)
        IN  /\ \A i \in 1..Len(gaps) :
                /\ IsoSeconds(gaps[i].start_timestamp) \in T
                /\ IsoSeconds(gaps[i].end_timestamp) \in T
                /\ gaps[i].length_days = IsoSeconds(gaps[i].end_timestamp)
                                           - IsoSeconds(gaps[i].start_timestamp)
                /\ gaps[i].length_days > 0
                /\ ~ \E x \in T : /\ IsoSeconds(gaps[i].start_timestamp) < x
                                  /\ x < IsoSeconds(gaps[i].end_timestamp)
            /\ \A a \in T : (\E b \in T : a < b) =>
                Cardinality({i \in 1..Len(gaps) :
                    IsoSeconds(gaps[i].start_timestamp) = a}) = 1
            /\ \A i \in 1..Len(gaps) - 1 :
                gaps[i].length_days >= gaps[i + 1].length_days
            /\ out[1].longest_gap = IF gaps = <<>> THEN <<>> ELSE <<gaps[1]>>

\* Three distinct timestamps given out of order; the later gap is the
\* longer one and comes first.
C11_Witness ==
    /\ GapCalled
    /\ Len(arg) = 3
    /\ Seconds(arg[1]) > Seconds(arg[2])
    /\ Len(out[1].gaps) = 2
    /\ IsoSeconds(out[1].gaps[1].start_timestamp)
           > IsoSeconds(out[1].gaps[2].start_timestamp)
    /\ out[1].gaps[1].length_days > out[1].gaps[2].length_days

\* C12: total_days counts the days from the earliest to the latest date
\* inclusively, days_active the distinct dates, and days_inactive is their
\* difference; one timestamp gives 1/1/0 and no gap, none gives 0/0/0 and
\* proportion_inactive 0.
C12_DayCounts ==
    GapCalled =>
        LET r == out[1]
            D == {arg[i].day : i \in 1..Len(arg)}
        IN  /\ arg # <<>> =>
                /\ \E lo, hi \in D :
                    /\ \A d \in D : lo <= d /\ d <= hi
                    /\ r.total_days = hi - lo + 1
                /\ r.days_active = Cardinality(D)
            /\ r.days_inactive = r.total_days - r.days_active
            /\ Len(arg) = 1 =>
                /\ r.total_days = 1 /\ r.days_active = 1 /\ r.days_inactive = 0
                /\ r.gaps = <<>>
            /\ arg = <<>> =>
                /\ r.total_days = 0 /\ r.days_active = 0 /\ r.days_inactive = 0
                /\ r.proportion_inactive = 0

\* Two active dates with one inactive day between them, given latest first.
C12_Witness ==
    /\ GapCalled
    /\ Len(arg) = 3
    /\ arg[1].day > arg[3].day
    /\ out[1].total_days = 3
    /\ out[1].days_active = 2
    /\ out[1].days_inactive = 1

----------------------------------------------------------------------------
\* Properties of the activity by year.

ActivityCalled == fn = "compute_activity_by_year" /\ out # <<>>

\* The dates and the calendar years of a list of timestamps.
DatesOf(ts) == {ts[i].day : i \in 1..Len(ts)}
YearsOf(ts) == {IsoDate(d)[1] : d \in DatesOf(ts)}

\* The days from lo to hi, both counted, as total_days of a row.
Spans(row, lo, hi) == row.total_days = hi - lo + 1

\* C13: Overall comes first, then the years in ascending order; the first
\* year is measured from the earliest date, the last year up to the latest
\* date, and every other year boundary is Jan 1 or Dec 31, so that a year
\* strictly between has 365 or 366 days.
C13_YearRows ==
    (ActivityCalled /\ arg # <<>>) =>
        LET rows  == out[1]
            D     == DatesOf(arg)
            first == CHOOSE d \in D : \A e \in D : d <= e
            last  == CHOOSE d \in D : \A e \in D : e <= d
            Y     == YearsOf(arg)
        IN  /\ rows[1].year = "Overall"
            /\ Spans(rows[1], first, last)
            /\ Len(rows) = 1 + Cardinality(Y)
            /\ \A y \in Y :
                LET i == 1 + Cardinality({z \in Y : z <= y})
                    a == IF y = IsoDate(first)[1] THEN first
                         ELSE DaysFromCivil(y, 1, 1)
                    b == IF y = IsoDate(last)[1] THEN last
                         ELSE DaysFromCivil(y, 12, 31)
                IN  /\ rows[i].year = ToString(y)
                    /\ Spans(rows[i], a, b)
                    /\ (IsoDate(first)[1] < y /\ y < IsoDate(last)[1]) =>
                        rows[i].total_days =
                            IF (y % 4 = 0 /\ y % 100 # 0) \/ y % 400 = 0
                            THEN 366 ELSE 365

\* Three years given out of order, the middle one a leap year.
C13_Witness ==
    /\ ActivityCalled
    /\ Len(arg) = 3
    /\ arg[1].day > arg[2].day
    /\ Len(out[1]) = 4
    /\ out[1][2].total_days = 2
    /\ out[1][3].year = "2024" /\ out[1][3].total_days = 366
    /\ out[1][4].year = "2025" /\ out[1][4].total_days = 60

----------------------------------------------------------------------------
\* Properties of the weekly data.

WeeklyCalled == fn = "compute_weekly_data" /\ out # <<>>

\* The Thursday of the Monday-to-Sunday week of the day d.
ThursdayOf(d) == d - ((d + 3) % 7) + 3

\* ISO 8601: a week belongs to the year of its Thursday, and is numbered by
\* the position of that Thursday among the Thursdays of the year.
IsoWeekOf(d) ==
    LET t == ThursdayOf(d)
        y == IsoDate(t)[1]
    IN  <<y, (t - DaysFromCivil(y, 1, 1)) \div 7 + 1>>

\* The day number of the date of the record arg[i].
RecordDay(i) == DaysFromCivil(arg[i].date[1], arg[i].date[2], arg[i].date[3])

\* C14: there is one bucket per ISO week-year and week number of the
\* records, it sums the records of that week, and its label is the Monday
\* of the week; the buckets are in the order of the weeks.
C14_IsoWeekBuckets ==
    WeeklyCalled =>
        LET r == out[1]
            W == {IsoWeekOf(RecordDay(i)) : i \in 1..Len(arg)}
        IN  /\ Len(r.weeks) = Cardinality(W)
            /\ Len(r.chats) = Len(r.weeks)
            /\ Len(r.messages) = Len(r.weeks)
            /\ \A w \in W :
                LET k    == Cardinality({v \in W : v[1] < w[1]
                                            \/ (v[1] = w[1] /\ v[2] <= w[2])})
                    in_w == {i \in 1..Len(arg) : IsoWeekOf(RecordDay(i)) = w}
                    any  == CHOOSE i \in in_w : TRUE
                IN  /\ r.weeks[k] = IsoDate(ThursdayOf(RecordDay(any)) - 3)
                    /\ r.chats[k] = SumSeq([i \in 1..Len(arg) |->
                           IF i \in in_w THEN arg[i].total_chats ELSE 0])
                    /\ r.messages[k] = SumSeq([i \in 1..Len(arg) |->
                           IF i \in in_w THEN arg[i].total_messages ELSE 0])

\* Mon 2024-12-30 and Wed 2025-01-01, of different calendar years, are in
\* one bucket labelled 2024-12-30.
C14_Witness ==
    /\ WeeklyCalled
    /\ Len(arg) = 2
    /\ arg[1].date = <<2025, 1, 1>>
    /\ arg[2].date = <<2024, 12, 30>>
    /\ out[1].weeks = << <<2024, 12, 30>> >>
    /\ out[1].chats = <<3>>

----------------------------------------------------------------------------
\* Properties of the period comparison.

ComparisonCalled == fn = "compute_period_comparison" /\ out # <<>>

\* The months since year 0 of a date <<year, month, day>>.
MonthNumber(date) == date[1] * 12 + (date[2] - 1)

\* The sum of the field f ("chats" or "messages") over the records of
\* arg.daily_records whose month lies k months, or whose year lies k years,
\* before that of the reference date.
SumOfMonth(f, k) ==
    LET rs == arg.daily_records
    IN  SumSeq([i \in 1..Len(rs) |->
            IF MonthNumber(rs[i].date) = MonthNumber(arg.reference_date) - k
            THEN (IF f = "chats" THEN rs[i].total_chats ELSE rs[i].total_messages)
            ELSE 0])

SumOfYear(f, k) ==
    LET rs == arg.daily_records
    IN  SumSeq([i \in 1..Len(rs) |->
            IF rs[i].date[1] = arg.reference_date[1] - k
            THEN (IF f = "chats" THEN rs[i].total_chats ELSE rs[i].total_messages)
            ELSE 0])

\* C15: this_month and last_month sum the records of the reference's
\* calendar month and of the month before it (December of the year before
\* for a reference in January); this_year and last_year those of the
\* reference's year and of the year before it.
C15_PeriodsAreCalendarAdjacent ==
    ComparisonCalled =>
        LET r == out[1]
        IN  /\ r.this_month.chats = SumOfMonth("chats", 0)
            /\ r.this_month.messages = SumOfMonth("messages", 0)
            /\ r.last_month.chats = SumOfMonth("chats", 1)
            /\ r.last_month.messages = SumOfMonth("messages", 1)
            /\ r.this_year.chats = SumOfYear("chats", 0)
            /\ r.this_year.messages = SumOfYear("messages", 0)
            /\ r.last_year.chats = SumOfYear("chats", 1)
            /\ r.last_year.messages = SumOfYear("messages", 1)

\* A reference in January 2025 with records of December 2024 and of
\* January 2025.
C15_Witness ==
    /\ ComparisonCalled
    /\ arg.reference_date = <<2025, 1, 1>>
    /\ out[1].last_month.chats > 0
    /\ out[1].this_month.chats > 0
    /\ out[1].last_year.chats = out[1].last_month.chats
    /\ out[1].this_year.chats = out[1].this_month.chats

\* p is x * total / elapsed in hundredths, rounded to a nearest hundredth.
IsProjection(p, x, total, elapsed) ==
    LET err == p * elapsed - 100 * x * total
    IN  2 * err <= elapsed /\ 2 * (0 - err) <= elapsed

\* The current-period entry e spans total days of which elapsed have begun.
IsProjected(e, elapsed, total) ==
    /\ DOMAIN e = {"chats", "messages", "avg_messages", "elapsed_days",
                   "total_days", "projected_chats", "projected_messages"}
    /\ e.elapsed_days = elapsed
    /\ e.total_days = total
    /\ 1 <= e.elapsed_days /\ e.elapsed_days <= e.total_days
    /\ IsProjection(e.projected_chats, e.chats, total, elapsed)
    /\ IsProjection(e.projected_messages, e.messages, total, elapsed)

\* C16: this_month and this_year carry the days elapsed and the length of
\* the month and of the year, and the pro-rata projections; last_month and
\* last_year carry none of these fields.
C16_ProjectionsOnCurrentPeriods ==
    ComparisonCalled =>
        LET r  == out[1]
            y  == arg.reference_date[1]
            m  == arg.reference_date[2]
            d  == arg.reference_date[3]
            m1 == DaysFromCivil(y, m, 1)
            m2 == IF m = 12 THEN DaysFromCivil(y + 1, 1, 1)
                  ELSE DaysFromCivil(y, m + 1, 1)
            y1 == DaysFromCivil(y, 1, 1)
            y2 == DaysFromCivil(y + 1, 1, 1)
        IN  /\ IsProjected(r.this_month, d, m2 - m1)
            /\ IsProjected(r.this_year, DaysFromCivil(y, m, d) - y1 + 1, y2 - y1)
            /\ DOMAIN r.last_month = {"chats", "messages", "avg_messages"}
            /\ DOMAIN r.last_year = {"chats", "messages", "avg_messages"}

\* 10 of the 28 days of February 2025 and 41 of the 365 days of the year
\* have begun, with records in the year.
C16_Witness ==
    /\ ComparisonCalled
    /\ arg.reference_date = <<2025, 2, 10>>
    /\ out[1].this_month.total_days = 28
    /\ out[1].this_year.elapsed_days = 41
    /\ out[1].this_year.total_days = 365
    /\ out[1].this_year.chats = 2
    /\ out[1].this_year.projected_chats = 1780

LengthCalled == fn = "compute_length_distribution" /\ out # <<>>

\* The number of summaries of ss whose message count is one of lo..hi.
CountBetween(ss, lo, hi) ==
    Cardinality({i \in 1..Len(ss) :
                    lo <= ss[i].message_count /\ ss[i].message_count <= hi})

\* The number of summaries of ss with at least lo messages.
CountFrom(ss, lo) ==
    Cardinality({i \in 1..Len(ss) : lo <= ss[i].message_count})

\* C17: the six buckets are 1-2, 3-5, 6-10, 11-20, 21-50 and 50+, a summary
\* is counted in the bucket its message count lies in (50 in 21-50, 51 in
\* 50+), the counts sum to the number of summaries with a message or more,
\* and a count of 0 messages is in no bucket.
C17_LengthBuckets ==
    LengthCalled =>
        LET r == out[1]
        IN  /\ r.buckets = <<"1-2", "3-5", "6-10", "11-20", "21-50", "50+">>
            /\ r.counts = <<CountBetween(arg, 1, 2), CountBetween(arg, 3, 5),
                            CountBetween(arg, 6, 10), CountBetween(arg, 11, 20),
                            CountBetween(arg, 21, 50), CountFrom(arg, 51)>>
            /\ SumSeq(r.counts) = CountFrom(arg, 1)

\* A summary of 50 messages and one of 0: one count in 21-50, none in 50+.
C17_Witness ==
    /\ LengthCalled
    /\ arg = <<[message_count |-> 50], [message_count |-> 0]>>
    /\ out[1].counts = <<0, 0, 0, 0, 1, 0>>

RollingCalled == fn = "_rolling_avg" /\ out # <<>>

\* The sum of the floats of w in units of 2^b, b no larger than the exponent
\* of any of them that is not zero.
RECURSIVE ExactSum(_, _)
ExactSum(w, b) ==
    IF w = <<>> THEN BigZero
    ELSE LET x == w[Len(w)]
             rest == ExactSum(SubSeq(w, 1, Len(w) - 1), b)
         IN  IF x.m = BigZero THEN rest ELSE BigAdd(rest, Shl(x.m, x.e - b))

\* The float r is at most tol halves of a unit in its last place away from
\* the mean of the floats of w.
MeanWithin(w, r, tol) ==
    LET n  == Len(w)
        nz == {j \in 1..n : w[j].m # BigZero}
    IN  IF nz = {} THEN r = FloatZero
        ELSE /\ r.m # BigZero
             /\ LET es == {w[j].e : j \in nz} \cup {r.e}
                    b  == CHOOSE x \in es : \A y \in es : x <= y
                    s2 == BigTimes(ExactSum(w, b), 2)
                    r2 == Shl(BigTimes(r.m, 2 * n), r.e - b)
                    t  == Shl(BigOf(tol * n), r.e - b)
                IN  /\ BigLeq(r2, BigAdd(s2, t))
                    /\ BigLeq(s2, BigAdd(r2, t))

\* The values of the call at the positions trailing position i.
Trailing(i) ==
    SubSeq(SeriesValues,
           IF i < arg.window THEN 1 ELSE i - arg.window + 1, i)

TopRecordsCalled == fn = "_top_records_per_year" /\ out # <<>>

\* The positions of rs that hold one of the first n records of their year.
FirstOfYear(rs, n) ==
    {i \in 1..Len(rs) :
        Cardinality({j \in 1..(i - 1) : rs[j].date[1] = rs[i].date[1]}) < n}

\* The elements of s at the positions of the set idx, in the order of s.
Restrict(s, idx) ==
    LET rank(i) == Cardinality({j \in idx : j <= i})
    IN  [k \in 1..Cardinality(idx) |-> s[CHOOSE i \in idx : rank(i) = k]]

\* C19: the result is the input restricted, in input order, to the first
\* min(N, count) records of every calendar year.
C19_FirstNOfEveryYear ==
    TopRecordsCalled =>
        out[1] = Restrict(arg.records, FirstOfYear(arg.records, arg.per_year))

\* Three records, the second of another year than the first and the third,
\* capped at one per year: the third is dropped.
C19_Witness ==
    /\ TopRecordsCalled
    /\ arg.per_year = 1
    /\ Len(arg.records) = 3
    /\ arg.records[1].date[1] = arg.records[3].date[1]
    /\ arg.records[1].date[1] # arg.records[2].date[1]
    /\ out[1] = SubSeq(arg.records, 1, 2)

TopGapsCalled == fn = "_top_gaps_per_year" /\ out # <<>>

\* The positions of gs that hold one of the first n gaps of their start year.
FirstGapsOfYear(gs, n) ==
    {i \in 1..Len(gs) :
        Cardinality({j \in 1..(i - 1) :
            gs[j].start_timestamp.date[1] = gs[i].start_timestamp.date[1]}) < n}

\* s is t with its elements in another order.
IsPermutation(s, t) ==
    /\ Len(s) = Len(t)
    /\ \E f \in [1..Len(s) -> 1..Len(s)] :
          /\ \A i, j \in 1..Len(s) : i # j => f[i] # f[j]
          /\ \A i \in 1..Len(s) : s[i] = t[f[i]]

\* C20: for gaps sorted descending the result holds the gaps an
\* order-preserving cap per start year keeps, in non-increasing order of
\* length, and two gaps of different lengths stand in the order the
\* order-preserving cap leaves them in.
C20_CappedThenSorted ==
    TopGapsCalled =>
        LET kept == Restrict(arg.gaps, FirstGapsOfYear(arg.gaps, arg.per_year))
            r    == out[1]
        IN  /\ IsPermutation(r, kept)
            /\ \A i \in 1..(Len(r) - 1) : r[i].length_days >= r[i + 1].length_days
            /\ \A i \in 1..Len(r) :
                  r[i] # kept[i] => r[i].length_days = kept[i].length_days

\* Three gaps of one length starting in 2023, 2024 and 2023: all are kept
\* and the two of 2023 come first.
C20_Witness ==
    /\ TopGapsCalled
    /\ arg.per_year = 2
    /\ Len(arg.gaps) = 3
    /\ Len(out[1]) = 3
    /\ out[1] # arg.gaps
    /\ out[1][2] = arg.gaps[3]

----------------------------------------------------------------------------
\* The fold, continued.

\* process_conversations has left its loop: it returned or it raised.
Ended == pc \in {"done", "raised"}

\* C21: a list that is not empty and yields no summary ends with the
\* warning and the normal return of three empty lists, and the warning is
\* emitted in no other case.
C21_WarningIffNoSummary ==
    /\ (Ended /\ n_chats > 0 /\ chat_summaries = <<>>) =>
          /\ pc = "done"
          /\ warned
          /\ daily_records = <<>>
          /\ all_message_timestamps = <<>>
    /\ warned => (pc = "done" /\ n_chats > 0 /\ chat_summaries = <<>>)

MonthlyCalled == fn = "compute_monthly_data" /\ out # <<>>

\* The sum of the field total_chats, or total_messages, of the records of
\* the call at the positions of the set idx.
ChatsOf(idx) ==
    SumSeq([i \in 1..Len(arg) |-> IF i \in idx THEN arg[i].total_chats ELSE 0])

MessagesOf(idx) ==
    SumSeq([i \in 1..Len(arg) |-> IF i \in idx THEN arg[i].total_messages ELSE 0])

\* a hundredths is msgs / chats_ rounded to 2 decimals (either neighbour when
\* the quotient lies half way), and 0 when there is no conversation.
IsRatio2(a, msgs, chats_) ==
    IF chats_ = 0 THEN a = 0
    ELSE LET d == 100 * msgs - a * chats_
         IN  2 * (IF d < 0 THEN -d ELSE d) <= chats_

\* C22: the avg_messages of every weekly and of every monthly bucket is the
\* sum of the total_messages of its days over the sum of their total_chats,
\* rounded to 2 decimals, and 0 when that sum of total_chats is 0.
C22_AvgIsRatioOfSums ==
    /\ WeeklyCalled =>
          LET r == out[1]
              W == {IsoWeekOf(RecordDay(i)) : i \in 1..Len(arg)}
          IN  /\ Len(r.avg_messages) = Cardinality(W)
              /\ \A w \in W :
                    LET k    == Cardinality({v \in W : v[1] < w[1]
                                                \/ (v[1] = w[1] /\ v[2] <= w[2])})
                        in_w == {i \in 1..Len(arg) : IsoWeekOf(RecordDay(i)) = w}
                    IN  IsRatio2(r.avg_messages[k], MessagesOf(in_w), ChatsOf(in_w))
    /\ MonthlyCalled =>
          LET r == out[1]
              M == {<<arg[i].date[1], arg[i].date[2]>> : i \in 1..Len(arg)}
          IN  /\ Len(r.avg_messages) = Cardinality(M)
              /\ \A m \in M :
                    LET k    == Cardinality({v \in M : v[1] < m[1]
                                                \/ (v[1] = m[1] /\ v[2] <= m[2])})
                        in_m == {i \in 1..Len(arg) :
                                    <<arg[i].date[1], arg[i].date[2]>> = m}
                    IN  /\ r.months[k] = m
                        /\ IsRatio2(r.avg_messages[k], MessagesOf(in_m), ChatsOf(in_m))

\* January 2024 holds a day of 2 messages in 2 conversations (average 1) and
\* a day of 2 messages in 1 conversation (average 2): the month has 1.33, not
\* 1.5; June 2023 holds a message and no conversation and has 0.
C22_Witness ==
    /\ MonthlyCalled
    /\ Len(arg) = 3
    /\ {arg[i].date : i \in 1..3} = {<<2024, 1, 15>>, <<2024, 1, 16>>, <<2023, 6, 8>>}
    /\ out[1].months = <<<<2023, 6>>, <<2024, 1>>>>
    /\ out[1].avg_messages = <<0, 133>>

\* The timestamps of the valid user messages of the conversation whose
\* summary was returned last, in the order they were processed.
SummarizedTimes ==
    LET n == Len(all_message_timestamps)
    IN  SubSeq(all_message_timestamps, n - summary[1].message_count + 1, n)

\* C23: whatever the order of the messages, the summary starts at the
\* earliest and ends at the latest of the conversation's valid user
\* timestamps and lasts the minutes between them; with one such message
\* start and end coincide and the duration is 0.
C23_RangeIsMinAndMax ==
    summary # <<>> =>
        LET T  == SummarizedTimes
            s  == summary[1]
            lo == CHOOSE i \in 1..Len(T) : \A j \in 1..Len(T) : ~DtLess(T[j], T[i])
            hi == CHOOSE i \in 1..Len(T) : \A j \in 1..Len(T) : ~DtLess(T[i], T[j])
        IN  /\ Len(T) = s.message_count
            /\ s.start_time = IsoDateTime(T[lo])
            /\ s.end_time = IsoDateTime(T[hi])
            /\ LET d == 100 * TotalSeconds(T[lo], T[hi]) - 60 * s.duration_minutes
               IN  -30 <= d /\ d <= 30
            /\ Len(T) = 1 => (s.start_time = s.end_time /\ s.duration_minutes = 0)

\* Three user messages, processed neither earliest first nor latest last.
C23_Witness ==
    /\ summary # <<>>
    /\ summary[1].message_count = 3
    /\ LET T == SummarizedTimes
       IN  /\ DtLess(T[2], T[1])
           /\ DtLess(T[1], T[3]) \/ DtLess(T[3], T[2])
           /\ summary[1].start_time # IsoDateTime(T[1])
           /\ summary[1].duration_minutes > 0

\* The assistant counters of the buckets, date by date.
AsstCounters(ds) ==
    [i \in 1..Len(ds) |->
        <<ds[i].date, ds[i].asst_words, ds[i].asst_chars, ds[i].asst_msgs,
          ds[i].asst_code_msgs>>]

\* The step folds an assistant message.
FoldsAssistant ==
    asst_seen'.early_n + asst_seen'.credited_n
        = asst_seen.early_n + asst_seen.credited_n + 1

\* C24: folding an assistant message before any valid user message of its
\* conversation changes the assistant counters of no date, and the buckets
\* never hold more assistant messages than were folded after a valid user
\* message of their conversation, whatever follows.
C24_EarlyAssistantDropped ==
    /\ [][(n_valid = 0 /\ FoldsAssistant) =>
             AsstCounters(daily_stats') = AsstCounters(daily_stats)]_ingest_vars
    /\ [](SumSeq([i \in 1..Len(daily_stats) |-> daily_stats[i].asst_msgs])
              = asst_seen.credited_n)

\* An assistant message came first and a valid user message after it, in
\* the second conversation: the buckets of both conversations hold no
\* assistant message.
C24_Witness ==
    /\ pc = "in_chat"
    /\ n_chats = 2
    /\ asst_seen.early_n = 1
    /\ n_valid = 1
    /\ Len(daily_stats) >= 1
    /\ Len(chat_summaries) = 1
    /\ \A i \in 1..Len(daily_stats) : daily_stats[i].asst_msgs = 0

\* Between two conversations, or after the last.
AtBoundary == pc \in {"next_chat", "done"}

\* The summaries whose date is the date of the bucket b.
SummariesOn(b) ==
    {k \in 1..Len(chat_summaries) : chat_summaries[k].date = IsoDate(b.date)}

\* C25: after any sequence of conversations every bucket's total_chats is
\* the length of its messages_per_chat list and the number of summaries of
\* its date, the total_chats add up to the number of summaries, and the
\* entries of all messages_per_chat lists add up to the total_messages.
C25_OneChatPerSummary ==
    AtBoundary =>
        /\ \A i \in 1..Len(daily_stats) :
              /\ daily_stats[i].total_chats
                     = Len(daily_stats[i].messages_per_chat)
              /\ daily_stats[i].total_chats
                     = Cardinality(SummariesOn(daily_stats[i]))
        /\ SumSeq([i \in 1..Len(daily_stats) |-> daily_stats[i].total_chats])
               = Len(chat_summaries)
        /\ SumSeq([i \in 1..Len(daily_stats) |->
                      SumSeq(daily_stats[i].messages_per_chat)])
               = SumSeq([i \in 1..Len(daily_stats) |->
                            daily_stats[i].total_messages])
        /\ pc = "done" =>
              /\ SumSeq([i \in 1..Len(daily_records) |->
                            daily_records[i].total_chats])
                     = Len(chat_summaries)
              /\ \A i \in 1..Len(daily_records) :
                    daily_records[i].total_chats = daily_stats[i].total_chats

\* Two summarized conversations, the second of two messages on two dates
\* and registered on the date of the first conversation.
C25_Witness ==
    /\ pc = "done"
    /\ Len(chat_summaries) = 2
    /\ Len(daily_stats) = 2
    /\ \E i \in 1..2 : /\ daily_stats[i].total_chats = 2
                       /\ daily_stats[i].total_messages = 2
                       /\ SumSeq(daily_stats[i].messages_per_chat) = 3

\* asst_msgs of the bucket of day d (0 when there is no such bucket).
AsstMsgsOn(ds, d) ==
    IF HasDate(ds, d) THEN ds[IndexOf(ds, d)].asst_msgs ELSE 0

\* C26: while a conversation has a start date the bucket of that date
\* exists, a conversation with a counted message has a start date, and an
\* assistant message folded with the start date set is counted in that
\* bucket: the guard for a missing date is not taken and the registration
\* of the chat finds its bucket.
C26_StartBucketExists ==
    /\ [](chat.start # <<>> => HasDate(daily_stats, chat.start[1].day))
    /\ [](chat.message_count > 0 => chat.start # <<>>)
    /\ [][(FoldsAssistant /\ chat.start # <<>>) =>
             AsstMsgsOn(daily_stats', chat.start[1].day)
                 = AsstMsgsOn(daily_stats, chat.start[1].day) + 1]_ingest_vars

\* The start date moved to an earlier date than that of the first user
\* message, and an assistant message was counted under it.
C26_Witness ==
    /\ pc = "in_chat"
    /\ chat.message_count = 2
    /\ chat.start # <<>>
    /\ Len(daily_stats) = 2
    /\ daily_stats[2].date = chat.start[1].day
    /\ daily_stats[2].asst_msgs = 1
    /\ daily_stats[1].asst_msgs = 0

\* a is sum / n rounded to hundredths (either neighbour on a tie).
IsMean2(a, sum, n) ==
    /\ 2 * (100 * sum - a * n) <= n
    /\ 2 * (a * n - 100 * sum) <= n

\* C27: every finalized record has total_messages = user_msgs >= 1; a
\* record without a chat has average and maximum 0, every other record the
\* mean (to hundredths) and the maximum of its messages_per_chat list.
C27_DailyFinalization ==
    pc = "done" =>
        /\ Len(daily_records) = Len(daily_stats)
        /\ \A i \in 1..Len(daily_records) :
              LET r   == daily_records[i]
                  mpc == daily_stats[i].messages_per_chat
              IN  /\ r.total_messages = r.user_msgs
                  /\ r.total_messages >= 1
                  /\ r.total_chats = Len(mpc)
                  /\ r.total_chats = 0 =>
                        /\ r.avg_messages_per_chat = 0
                        /\ r.max_messages_in_chat = 0
                  /\ r.total_chats > 0 =>
                        /\ IsMean2(r.avg_messages_per_chat, SumSeq(mpc),
                                   Len(mpc))
                        /\ \E k \in 1..Len(mpc) :
                              r.max_messages_in_chat = mpc[k]
                        /\ \A k \in 1..Len(mpc) :
                              mpc[k] <= r.max_messages_in_chat

\* A finalized date with a message and no chat, next to the date its
\* conversation started on.
C27_Witness ==
    /\ pc = "done"
    /\ \E i \in 1..Len(daily_records) :
          /\ daily_records[i].total_messages >= 1
          /\ daily_records[i].total_chats = 0
          /\ daily_records[i].avg_messages_per_chat = 0
          /\ daily_records[i].max_messages_in_chat = 0
    /\ \E i \in 1..Len(daily_records) :
          /\ daily_records[i].total_chats = 1
          /\ daily_records[i].total_messages = 1
          /\ daily_records[i].max_messages_in_chat = 2

\* asst_words over the summaries, and over the buckets.
SummaryAsstWords ==
    SumSeq([k \in 1..Len(chat_summaries) |-> chat_summaries[k].asst_words])

DailyAsstWords ==
    SumSeq([i \in 1..Len(daily_stats) |-> daily_stats[i].asst_words])

\* C29 as stated: the two sums are equal exactly when no summarized
\* conversation has an assistant message ahead of its first valid user
\* message.
C29_EqualIffNoEarlyAssistant ==
    AtBoundary =>
        (SummaryAsstWords = DailyAsstWords <=> asst_seen.dropped_n = 0)

\* C29: after any sequence of conversations the summaries hold the words of
\* every assistant message of the summarized conversations and the daily
\* records those folded after a valid user message; the summaries' sum is
\* the larger by the words of the assistant messages ahead of the first
\* valid user message, and the two are equal exactly when those messages
\* have no words.
C29_SummaryWordsCoverDailyWords ==
    AtBoundary =>
        /\ SummaryAsstWords
               = asst_seen.dropped_words + asst_seen.credited_words
        /\ DailyAsstWords = asst_seen.credited_words
        /\ SummaryAsstWords >= DailyAsstWords
        /\ (SummaryAsstWords = DailyAsstWords
               <=> asst_seen.dropped_words = 0)
        /\ pc = "done" =>
              SumSeq([i \in 1..Len(daily_records) |->
                         daily_records[i].asst_words]) = DailyAsstWords

\* A summarized conversation lost the words of an assistant message that
\* came ahead of its first valid user message.
C29_Witness ==
    /\ pc = "done"
    /\ asst_seen.dropped_n >= 1
    /\ asst_seen.dropped_words >= 1
    /\ asst_seen.credited_words >= 1
    /\ SummaryAsstWords > DailyAsstWords
    /\ DailyAsstWords >= 1

----------------------------------------------------------------------------
\* The cache, continued.

\* The thread t ends a build in this step.
EndsBuild(t) == th[t].pc = "build" /\ th'[t].pc = "done"

\* C28: a build that fails leaves _cache as it was and releases the lock;
\* after a failure a non-forced call inside the TTL of the last successful
\* build returns the payload of that build, and a build that finds a good
\* file succeeds and stores its payload; the lock is only ever held by a
\* thread that is building, and the cache holds nothing or the payload and
\* time of the last successful build.
C28_FailedRebuildKeepsCache ==
    /\ [][\A t \in Threads :
             (EndsBuild(t) /\ th'[t].result.status # 200) =>
                 /\ cache' = cache
                 /\ lock' = 0]_vars
    /\ [][\A t \in Threads :
             (/\ th[t].pc = "waiting"
              /\ th'[t].pc # "waiting"
              /\ any_failed
              /\ ~th[t].force
              /\ last_store # <<>>
              /\ clock - last_store[1].at < CACHE_TTL_SECONDS) =>
                 /\ th'[t].pc = "done"
                 /\ th'[t].result
                        = [status |-> 200, data |-> last_store[1].data]
                 /\ lock' = 0]_vars
    /\ [][\A t \in Threads :
             (EndsBuild(t) /\ any_failed /\ th'[t].found = "ok") =>
                 /\ th'[t].result.status = 200
                 /\ cache' = [data |-> th'[t].result.data, built_at |-> clock]
                 /\ lock' = 0]_vars
    /\ [](lock # 0 => th[lock].pc = "build")
    /\ [](\/ cache = [data |-> <<>>, built_at |-> 0] /\ last_store = <<>>
          \/ /\ last_store # <<>>
             /\ cache = [data |-> last_store[1].data,
                         built_at |-> last_store[1].at])

\* A build failed over a stored payload, and a later non-forced call got
\* that payload from the cache.
C28_Witness ==
    /\ lock = 0
    /\ n_builds = 2
    /\ cache.data # <<>>
    /\ \E u \in Threads, t \in Threads :
          /\ u # t
          /\ th[u].pc = "done"
          /\ th[u].built
          /\ th[u].result.status # 200
          /\ th[u].kept
          /\ th[t].pc = "done"
          /\ ~th[t].built
          /\ th[t].after_failure
          /\ th[t].result = [status |-> 200, data |-> cache.data]

----------------------------------------------------------------------------
\* The activity by year, continued.

\* The days of the calendar year y.
DaysOfYear(y) == DaysFromCivil(y, 12, 31) - DaysFromCivil(y, 1, 1) + 1

\* C30: the year rows are those of the calendar years with an active date;
\* their days_active add up to the Overall days_active; their total_days
\* and days_inactive add up to the Overall figures less the days of the
\* calendar years in between without activity, so they are equal when there
\* is no such year and smaller when there is one.
C30_YearRowsAgainstOverall ==
    (ActivityCalled /\ arg # <<>>) =>
        LET overall == out[1][1]
            rows    == Tail(out[1])
            Y       == YearsOf(arg)
            lo      == CHOOSE y \in Y : \A z \in Y : y <= z
            hi      == CHOOSE y \in Y : \A z \in Y : z <= y
            silent  == {y \in lo..hi : y \notin Y}
            missing == SumSeq([i \in 1..Len(SortedSet(silent)) |->
                                  DaysOfYear(SortedSet(silent)[i])])
            total   == SumSeq([i \in 1..Len(rows) |-> rows[i].total_days])
            active  == SumSeq([i \in 1..Len(rows) |-> rows[i].days_active])
            idle    == SumSeq([i \in 1..Len(rows) |-> rows[i].days_inactive])
        IN  /\ {rows[i].year : i \in 1..Len(rows)} = {ToString(y) : y \in Y}
            /\ Len(rows) = Cardinality(Y)
            /\ \A i \in 1..Len(rows) : rows[i].days_active >= 1
            /\ active = overall.days_active
            /\ total + missing = overall.total_days
            /\ idle + missing = overall.days_inactive
            /\ silent = {} =>
                  /\ total = overall.total_days
                  /\ idle = overall.days_inactive
            /\ silent # {} =>
                  /\ total < overall.total_days
                  /\ idle < overall.days_inactive

\* 2023-12-30 and 2025-03-01 are active and no date of 2024: the rows of
\* 2023 and 2025 hold 62 of the 428 days.
C30_Witness ==
    /\ ActivityCalled
    /\ Len(out[1]) = 3
    /\ out[1][1].total_days = 428
    /\ out[1][2].year = "2023" /\ out[1][2].total_days = 2
    /\ out[1][3].year = "2025" /\ out[1][3].total_days = 60
    /\ out[1][1].days_active = 2
    /\ out[1][1].days_inactive = 426
    /\ out[1][2].days_inactive + out[1][3].days_inactive = 60

====
